---------------------------- MODULE Spec2Model ----------------------------
(***************************************************************************)
(* Payment proxy with fraud-risk scoring, routing and an in-memory ledger. *)
(*                                                                         *)
(* Conventions of the model                                                *)
(*  - A string is the sequence of its characters, so that includes,        *)
(*    endsWith, toLowerCase and the regular expressions are computed.      *)
(*  - An amount is an integer number of cents (amounts with two decimals). *)
(*  - A score is an IEEE-754 double, kept exactly as a pair [h, r]:        *)
(*    the value is (h + r / 2^60) / 100, h the hundredths the value stands *)
(*    for and r the representation error. Addition rounds to nearest,      *)
(*    ties to even, as the JavaScript number type does.                    *)
(***************************************************************************)
EXTENDS Integers, Sequences, FiniteSets, TLC

(***************************************************************************)
(* Bounds of the model.                                                    *)
(***************************************************************************)
NumProcs == 2
MaxPayments == 2
MaxTime == 1

(***************************************************************************)
(* Strings                                                                 *)
(***************************************************************************)
UpperCase == <<"A", "B", "C", "D", "E", "F", "G", "H", "I", "J", "K", "L", "M", "N", "O", "P", "Q", "R", "S", "T", "U", "V", "W", "X", "Y", "Z">>
LowerCase == <<"a", "b", "c", "d", "e", "f", "g", "h", "i", "j", "k", "l", "m", "n", "o", "p", "q", "r", "s", "t", "u", "v", "w", "x", "y", "z">>
Digits == {"0", "1", "2", "3", "4", "5", "6", "7", "8", "9"}
WhiteSpace == {" "}

Range(s) == {s[i] : i \in DOMAIN s}

ToLowerChar(c) ==
    IF \E i \in DOMAIN UpperCase : UpperCase[i] = c
    THEN LowerCase[CHOOSE i \in DOMAIN UpperCase : UpperCase[i] = c]
    ELSE c

ToLowerCase(s) == [i \in DOMAIN s |-> ToLowerChar(s[i])]

EndsWith(s, suffix) ==
    /\ Len(suffix) <= Len(s)
    /\ SubSeq(s, Len(s) - Len(suffix) + 1, Len(s)) = suffix

Includes(s, part) ==
    \E i \in 1..(Len(s) - Len(part) + 1) : SubSeq(s, i, i + Len(part) - 1) = part

\* /^[^\s@]+@([^\s@]+)$/ : one "@", something on both sides, no white space
extractDomainFromEmail(email) ==
    LET ats == {i \in DOMAIN email : email[i] = "@"}
    IN  IF /\ Cardinality(ats) = 1
           /\ Range(email) \cap WhiteSpace = {}
           /\ \A i \in ats : 1 < i /\ i < Len(email)
        THEN LET at == CHOOSE i \in ats : TRUE
             IN  SubSeq(email, at + 1, Len(email))
        ELSE <<>>

EmailSafeChars == Range(UpperCase) \cup Range(LowerCase) \cup Digits \cup {"@", ".", "_", "-"}

hasSuspiciousEmailPattern(email) ==
    \/ \E k \in 1..(Len(email) - 1) :                       \* /^\d+@/
          /\ \A i \in 1..k : email[i] \in Digits
          /\ email[k + 1] = "@"
    \/ \E a \in DOMAIN email :                               \* /@.*\d{4,}/
          /\ email[a] = "@"
          /\ \E j \in (a + 1)..(Len(email) - 3) : \A i \in j..(j + 3) : email[i] \in Digits
    \/ \E i \in DOMAIN email : email[i] \notin EmailSafeChars \* /[^a-zA-Z0-9@._-]/
    \/ \E i \in 1..(Len(email) - 1) : email[i] = "." /\ email[i + 1] = "."   \* /\.{2,}/

(***************************************************************************)
(* IEEE-754 doubles near hundredths: [h, r] is (h + r / 2^60) / 100.       *)
(***************************************************************************)
Pow2(n) == 2 ^ n

\* 2^n modulo 200 for 40 <= n <= 60, by 2^n = 2^20 * 2^20 * 2^(n - 40)
Pow2Mod200(n) == (((2 ^ 20) % 200) * ((2 ^ 20) % 200) * ((2 ^ (n - 40)) % 200)) % 200

\* x >= 2^j, for the exact value x = [h, r] and -8 <= j
AtLeastPow2(x, j) ==
    LET hs == IF j >= 0 THEN x.h ELSE x.h * Pow2(-j)
        b  == IF j >= 0 THEN 100 * Pow2(j) ELSE 100
    IN  hs > b \/ (hs = b /\ x.r >= 0)

\* the exponent of a positive x: 2^j <= x < 2^(j + 1)
RECURSIVE BinadeFrom(_, _)
BinadeFrom(x, j) ==
    IF ~AtLeastPow2(x, j) THEN BinadeFrom(x, j - 1)
    ELSE IF AtLeastPow2(x, j + 1) THEN BinadeFrom(x, j + 1)
    ELSE j

Binade(x) == BinadeFrom(x, -1)

\* the double nearest to the exact value x (ties to even)
RoundToDouble(x) ==
    IF x.h = 0 /\ x.r = 0 THEN x
    ELSE LET j    == Binade(x)
             ulp  == 100 * Pow2(j + 8)
             m    == (Pow2(j + 8) * ((x.h * Pow2Mod200(52 - j)) % 200) + x.r) % (2 * ulp)
             low  == m % ulp
             down == [h |-> x.h, r |-> x.r - low]
             up   == [h |-> x.h, r |-> x.r + ulp - low]
         IN  IF low = 0 THEN x
             ELSE IF 2 * low < ulp THEN down
             ELSE IF 2 * low > ulp THEN up
             ELSE IF m < ulp THEN down ELSE up

\* the number a decimal literal with two decimals denotes (0.3 is Num(30))
Num(hundredths) == RoundToDouble([h |-> hundredths, r |-> 0])

FAdd(a, b) == RoundToDouble([h |-> a.h + b.h, r |-> a.r + b.r])
FLess(a, b) == a.h < b.h \/ (a.h = b.h /\ a.r < b.r)
FLeq(a, b) == ~FLess(b, a)
FMin(a, b) == IF FLess(b, a) THEN b ELSE a

\* Number.prototype.toFixed(2): the decimal string, as its hundredths
toFixed2(x) == x.h

(***************************************************************************)
(* Non-negative integers beyond 32 bits, least significant limb first.     *)
(***************************************************************************)
Base == 10 ^ 4

RECURSIVE ToBig(_)
ToBig(n) == IF n = 0 THEN <<>> ELSE <<n % Base>> \o ToBig(n \div Base)

RECURSIVE BigAddCarry(_, _, _)
BigAddCarry(a, b, c) ==
    IF a = <<>> /\ b = <<>> THEN (IF c = 0 THEN <<>> ELSE <<c>>)
    ELSE LET x == IF a = <<>> THEN 0 ELSE Head(a)
             y == IF b = <<>> THEN 0 ELSE Head(b)
             s == x + y + c
         IN  <<s % Base>> \o BigAddCarry(IF a = <<>> THEN a ELSE Tail(a),
                                         IF b = <<>> THEN b ELSE Tail(b), s \div Base)

BigAdd(a, b) == BigAddCarry(a, b, 0)

RECURSIVE BigMulLimb(_, _, _)
BigMulLimb(a, k, c) ==
    IF a = <<>> THEN ToBig(c)
    ELSE LET p == Head(a) * k + c
         IN  <<p % Base>> \o BigMulLimb(Tail(a), k, p \div Base)

RECURSIVE BigMul(_, _)
BigMul(a, b) ==
    IF b = <<>> THEN <<>>
    ELSE BigAdd(BigMulLimb(a, Head(b), 0), <<0>> \o BigMul(a, Tail(b)))

RECURSIVE BigTrim(_)
BigTrim(a) ==
    IF a # <<>> /\ a[Len(a)] = 0 THEN BigTrim(SubSeq(a, 1, Len(a) - 1)) ELSE a

RECURSIVE BigLessSameLen(_, _)
BigLessSameLen(a, b) ==
    IF a = <<>> THEN FALSE
    ELSE LET n == Len(a)
         IN  IF a[n] # b[n] THEN a[n] < b[n]
             ELSE BigLessSameLen(SubSeq(a, 1, n - 1), SubSeq(b, 1, n - 1))

BigLess(a, b) ==
    LET x == BigTrim(a)
        y == BigTrim(b)
    IN  IF Len(x) # Len(y) THEN Len(x) < Len(y) ELSE BigLessSameLen(x, y)

Abs(n) == IF n < 0 THEN -n ELSE n

(***************************************************************************)
(* Fraud detection: configuration, rules and scoring.                      *)
(***************************************************************************)
DotRu == <<".", "r", "u">>
TestCom == <<"t", "e", "s", "t", ".", "c", "o", "m">>
ExampleCom == <<"e", "x", "a", "m", "p", "l", "e", ".", "c", "o", "m">>
DotTestCom == <<".", "t", "e", "s", "t", ".", "c", "o", "m">>
DotExampleCom == <<".", "e", "x", "a", "m", "p", "l", "e", ".", "c", "o", "m">>

\* an optional value is <<>> (undefined) or <<v>>
Undefined == <<>>
Some(v) == <<v>>

FRAUD_THRESHOLD == Num(50)
LARGE_AMOUNT_THRESHOLD == 500000
SUSPICIOUS_DOMAINS == <<DotRu, TestCom, ExampleCom>>

getDefaultRules ==
    << "large_amount", "suspicious_domain", "test_domain", "high_value_currency",
       "suspicious_email_pattern", "round_number_amount", "gradual_amount_increase",
       "under_reporting_threshold", "micro_to_large_transaction",
       "exceeds_historical_average", "first_time_high_value",
       "inconsistent_merchant_category", "maximum_credit_limit", "odd_cent_patterns",
       "sequential_amount_testing" >>

Weight(name) ==
    CASE name = "large_amount" -> Num(30)
      [] name = "suspicious_domain" -> Num(40)
      [] name = "test_domain" -> Num(20)
      [] name = "high_value_currency" -> Num(10)
      [] name = "suspicious_email_pattern" -> Num(20)
      [] name = "round_number_amount" -> Num(15)
      [] name = "gradual_amount_increase" -> Num(25)
      [] name = "under_reporting_threshold" -> Num(30)
      [] name = "micro_to_large_transaction" -> Num(20)
      [] name = "exceeds_historical_average" -> Num(35)
      [] name = "first_time_high_value" -> Num(25)
      [] name = "inconsistent_merchant_category" -> Num(20)
      [] name = "maximum_credit_limit" -> Num(40)
      [] name = "odd_cent_patterns" -> Num(10)
      [] name = "sequential_amount_testing" -> Num(30)

FraudDetectionService ==
    [ threshold |-> FRAUD_THRESHOLD,
      largeAmountThreshold |-> LARGE_AMOUNT_THRESHOLD,
      suspiciousDomains |-> SUSPICIOUS_DOMAINS,
      rules |-> getDefaultRules ]

\* { ...this.config, ...config }
MergeConfig(cfg, partial) ==
    [f \in DOMAIN cfg |-> IF f \in DOMAIN partial THEN partial[f] ELSE cfg[f]]

isSuspiciousDomain(domain, cfg) ==
    \E i \in DOMAIN cfg.suspiciousDomains :
        EndsWith(ToLowerCase(domain), ToLowerCase(cfg.suspiciousDomains[i]))

StrTest == <<"t", "e", "s", "t">>
StrExample == <<"e", "x", "a", "m", "p", "l", "e">>

isRoundNumberAmount(amount) ==
    amount \in {10000, 50000, 100000, 200000, 500000, 1000000, 2000000, 5000000, 10000000}

\* previousAmounts.slice(-5)
LastFive(amounts) ==
    IF Len(amounts) <= 5 THEN amounts ELSE SubSeq(amounts, Len(amounts) - 4, Len(amounts))

\* the rule counting the increases of the whole history
hasGradualAmountIncreaseWholeHistory(data) ==
    IF data.transactionAmount = Undefined
       \/ Len(data.transactionAmount[1].previousAmounts) < 3
    THEN FALSE
    ELSE LET amounts == data.transactionAmount[1].previousAmounts
             increasingCount == Cardinality({i \in 2..Len(amounts) : amounts[i] > amounts[i - 1]})
             lastAmount == amounts[Len(amounts)]
         IN  increasingCount >= 3 /\ data.amount > lastAmount

hasGradualAmountIncrease(data) ==
    IF data.transactionAmount = Undefined
       \/ Len(data.transactionAmount[1].previousAmounts) < 3
    THEN FALSE
    ELSE LET amounts == LastFive(data.transactionAmount[1].previousAmounts)
             increasingCount == Cardinality({i \in 2..Len(amounts) : amounts[i] > amounts[i - 1]})
             lastAmount == amounts[Len(amounts)]
         IN  increasingCount >= 3 /\ data.amount > lastAmount

DefaultReportingThreshold == 1000000

isUnderReportingThreshold(data) ==
    LET given == IF data.transactionAmount = Undefined THEN 0
                 ELSE data.transactionAmount[1].reportingThreshold
        reportingThreshold == IF given # 0 THEN given ELSE DefaultReportingThreshold
    IN  \* amount >= threshold - threshold * 0.01, in cents times 100
        /\ data.amount * 100 >= reportingThreshold * 99
        /\ data.amount < reportingThreshold

MicroAmount == 1000
LargeFollowUp == 10000

isMicroTransactionFollowedByLarge(data) ==
    IF data.transactionAmount = Undefined
       \/ Len(data.transactionAmount[1].previousAmounts) < 2
    THEN FALSE
    ELSE LET previousAmounts == data.transactionAmount[1].previousAmounts
             lastAmount == previousAmounts[Len(previousAmounts)]
         IN  lastAmount < MicroAmount /\ data.amount > LargeFollowUp

\* the rule that asks for a history to compare with
exceedsHistoricalAverageOfHistory(data) ==
    IF data.transactionAmount = Undefined
       \/ data.transactionAmount[1].previousAmounts = <<>>
    THEN FALSE
    ELSE LET avg  == data.transactionAmount[1].userAverageAmount
             dev2 == data.transactionAmount[1].userStandardDeviation
             d    == data.amount * avg.den - avg.num
         IN  /\ d > 0
             /\ BigLess(BigMul(ToBig(9), BigMul(dev2.num, ToBig(avg.den * avg.den))),
                        BigMul(BigMul(ToBig(d), ToBig(d)), ToBig(dev2.den)))

\* amount > average + 3 * deviation, the average kept as num / den and the
\* deviation as the square root of num / den
exceedsHistoricalAverage(data) ==
    IF data.transactionAmount = Undefined THEN FALSE
    ELSE LET avg  == data.transactionAmount[1].userAverageAmount
             dev2 == data.transactionAmount[1].userStandardDeviation
             d    == data.amount * avg.den - avg.num
         IN  /\ d > 0
             /\ BigLess(BigMul(ToBig(9), BigMul(dev2.num, ToBig(avg.den * avg.den))),
                        BigMul(BigMul(ToBig(d), ToBig(d)), ToBig(dev2.den)))

\* the rule without its amount test
isFirstTimeTransactionOnly(data) ==
    IF data.transactionAmount = Undefined THEN FALSE
    ELSE data.transactionAmount[1].isFirstTimeTransaction

FirstTimeHighValue == 50000

isFirstTimeHighValueTransaction(data) ==
    IF data.transactionAmount = Undefined THEN FALSE
    ELSE data.transactionAmount[1].isFirstTimeTransaction /\ data.amount > FirstTimeHighValue

categoryRanges ==
    << [name |-> <<"g", "r", "o", "c", "e", "r", "y">>, min |-> 1000, max |-> 20000],
       [name |-> <<"g", "a", "s">>, min |-> 2000, max |-> 10000],
       [name |-> <<"r", "e", "s", "t", "a", "u", "r", "a", "n", "t">>, min |-> 500, max |-> 15000],
       [name |-> <<"r", "e", "t", "a", "i", "l">>, min |-> 1000, max |-> 100000],
       [name |-> <<"e", "l", "e", "c", "t", "r", "o", "n", "i", "c", "s">>, min |-> 5000, max |-> 500000],
       [name |-> <<"j", "e", "w", "e", "l", "r", "y">>, min |-> 10000, max |-> 1000000],
       [name |-> <<"t", "r", "a", "v", "e", "l">>, min |-> 10000, max |-> 500000],
       [name |-> <<"u", "t", "i", "l", "i", "t", "i", "e", "s">>, min |-> 2000, max |-> 50000],
       [name |-> <<"s", "u", "b", "s", "c", "r", "i", "p", "t", "i", "o", "n">>, min |-> 500, max |-> 10000],
       [name |-> <<"d", "i", "g", "i", "t", "a", "l", "_", "g", "o", "o", "d", "s">>, min |-> 100, max |-> 20000] >>

isInconsistentWithMerchantCategory(data) ==
    IF data.transactionAmount = Undefined THEN FALSE
    ELSE LET category == ToLowerCase(data.transactionAmount[1].merchantCategory)
             known == {i \in DOMAIN categoryRanges : categoryRanges[i].name = category}
         IN  IF known = {} THEN FALSE
             ELSE LET range == categoryRanges[CHOOSE i \in known : TRUE]
                  IN  data.amount < range.min \/ data.amount > range.max

isMaximumCreditLimitTransaction(data) ==
    IF data.transactionAmount = Undefined
       \/ data.transactionAmount[1].creditCardLimit = 0
    THEN FALSE
    ELSE \* amount >= creditCardLimit * 0.99, in cents times 100
         data.amount * 100 >= data.transactionAmount[1].creditCardLimit * 99

\* Math.round((amount % 1) * 100): the remainder takes the sign of the amount
hasOddCentPatterns(amount) ==
    LET cents == IF amount >= 0 THEN amount % 100 ELSE -((-amount) % 100)
    IN  cents \in {0, 1, 99}

SequentialStep == 100

hasSequentialAmountTesting(data) ==
    IF data.transactionAmount = Undefined
       \/ Len(data.transactionAmount[1].previousAmounts) < 3
    THEN FALSE
    ELSE LET amounts == LastFive(data.transactionAmount[1].previousAmounts)
             sequentialCount ==
                 Cardinality({i \in 2..Len(amounts) : Abs(amounts[i] - amounts[i - 1]) <= SequentialStep})
             currentDiff == Abs(data.amount - amounts[Len(amounts)])
         IN  sequentialCount >= 2 /\ currentDiff <= SequentialStep

HighValue == 100000

\* rule conditions with high_value_currency for payments in US dollars only
ConditionDollarsOnly(name, data, cfg) ==
    CASE name = "large_amount" -> data.amount > cfg.largeAmountThreshold
      [] name = "suspicious_domain" ->
            \E k \in DOMAIN cfg.suspiciousDomains :
                EndsWith(ToLowerCase(data.domain), ToLowerCase(cfg.suspiciousDomains[k]))
      [] name = "test_domain" -> Includes(data.domain, StrTest) \/ Includes(data.domain, StrExample)
      [] name = "high_value_currency" -> data.currency = "USD" /\ data.amount > HighValue
      [] name = "suspicious_email_pattern" -> hasSuspiciousEmailPattern(data.email)
      [] name = "round_number_amount" -> isRoundNumberAmount(data.amount)
      [] name = "gradual_amount_increase" -> hasGradualAmountIncrease(data)
      [] name = "under_reporting_threshold" -> isUnderReportingThreshold(data)
      [] name = "micro_to_large_transaction" -> isMicroTransactionFollowedByLarge(data)
      [] name = "exceeds_historical_average" -> exceedsHistoricalAverage(data)
      [] name = "first_time_high_value" -> isFirstTimeHighValueTransaction(data)
      [] name = "inconsistent_merchant_category" -> isInconsistentWithMerchantCategory(data)
      [] name = "maximum_credit_limit" -> isMaximumCreditLimitTransaction(data)
      [] name = "odd_cent_patterns" -> hasOddCentPatterns(data.amount)
      [] name = "sequential_amount_testing" -> hasSequentialAmountTesting(data)

\* rule conditions that hold on to the configuration of the constructor
ConditionAtConstruction(name, data, cfg) ==
    CASE name = "large_amount" -> data.amount > LARGE_AMOUNT_THRESHOLD
      [] name = "suspicious_domain" ->
            \E k \in DOMAIN SUSPICIOUS_DOMAINS :
                EndsWith(ToLowerCase(data.domain), ToLowerCase(SUSPICIOUS_DOMAINS[k]))
      [] name = "test_domain" -> Includes(data.domain, StrTest) \/ Includes(data.domain, StrExample)
      [] name = "high_value_currency" -> data.amount > HighValue
      [] name = "suspicious_email_pattern" -> hasSuspiciousEmailPattern(data.email)
      [] name = "round_number_amount" -> isRoundNumberAmount(data.amount)
      [] name = "gradual_amount_increase" -> hasGradualAmountIncrease(data)
      [] name = "under_reporting_threshold" -> isUnderReportingThreshold(data)
      [] name = "micro_to_large_transaction" -> isMicroTransactionFollowedByLarge(data)
      [] name = "exceeds_historical_average" -> exceedsHistoricalAverage(data)
      [] name = "first_time_high_value" -> isFirstTimeHighValueTransaction(data)
      [] name = "inconsistent_merchant_category" -> isInconsistentWithMerchantCategory(data)
      [] name = "maximum_credit_limit" -> isMaximumCreditLimitTransaction(data)
      [] name = "odd_cent_patterns" -> hasOddCentPatterns(data.amount)
      [] name = "sequential_amount_testing" -> hasSequentialAmountTesting(data)

Condition(name, data, cfg) ==
    CASE name = "large_amount" -> data.amount > cfg.largeAmountThreshold
      [] name = "suspicious_domain" -> isSuspiciousDomain(data.domain, cfg)
      [] name = "test_domain" -> Includes(data.domain, StrTest) \/ Includes(data.domain, StrExample)
      [] name = "high_value_currency" -> data.amount > HighValue
      [] name = "suspicious_email_pattern" -> hasSuspiciousEmailPattern(data.email)
      [] name = "round_number_amount" -> isRoundNumberAmount(data.amount)
      [] name = "gradual_amount_increase" -> hasGradualAmountIncrease(data)
      [] name = "under_reporting_threshold" -> isUnderReportingThreshold(data)
      [] name = "micro_to_large_transaction" -> isMicroTransactionFollowedByLarge(data)
      [] name = "exceeds_historical_average" -> exceedsHistoricalAverage(data)
      [] name = "first_time_high_value" -> isFirstTimeHighValueTransaction(data)
      [] name = "inconsistent_merchant_category" -> isInconsistentWithMerchantCategory(data)
      [] name = "maximum_credit_limit" -> isMaximumCreditLimitTransaction(data)
      [] name = "odd_cent_patterns" -> hasOddCentPatterns(data.amount)
      [] name = "sequential_amount_testing" -> hasSequentialAmountTesting(data)

\* the loop leaving at the first rule that triggers
RECURSIVE ApplyRulesFirstMatch(_, _, _)
ApplyRulesFirstMatch(i, data, cfg) ==
    IF i = 0 THEN [triggeredRules |-> <<>>, totalScore |-> Num(0)]
    ELSE LET before == ApplyRulesFirstMatch(i - 1, data, cfg)
             rule   == cfg.rules[i]
         IN  IF before.triggeredRules = <<>> /\ Condition(rule, data, cfg)
             THEN [ triggeredRules |-> <<rule>>,
                    totalScore |-> FAdd(before.totalScore, Weight(rule)) ]
             ELSE before

\* the loop of analyzeRisk over this.config.rules, after its first i rules
RECURSIVE ApplyRules(_, _, _)
ApplyRules(i, data, cfg) ==
    IF i = 0 THEN [triggeredRules |-> <<>>, totalScore |-> Num(0)]
    ELSE LET before == ApplyRules(i - 1, data, cfg)
             rule   == cfg.rules[i]
         IN  IF Condition(rule, data, cfg)
             THEN [ triggeredRules |-> Append(before.triggeredRules, rule),
                    totalScore |-> FAdd(before.totalScore, Weight(rule)) ]
             ELSE before

\* analyzeRisk without Math.min
analyzeRiskUncapped(data, cfg) ==
    LET applied   == ApplyRules(Len(cfg.rules), data, cfg)
        riskScore == applied.totalScore
    IN  [ riskScore |-> riskScore,
          triggeredRules |-> applied.triggeredRules,
          explanation |-> "",
          isHighRisk |-> FLeq(cfg.threshold, riskScore) ]

\* analyzeRisk comparing with the threshold of the environment
analyzeRiskEnvThreshold(data, cfg) ==
    LET applied   == ApplyRules(Len(cfg.rules), data, cfg)
        riskScore == FMin(applied.totalScore, Num(100))
    IN  [ riskScore |-> riskScore,
          triggeredRules |-> applied.triggeredRules,
          explanation |-> "",
          isHighRisk |-> FLeq(FRAUD_THRESHOLD, riskScore) ]

analyzeRisk(data, cfg) ==
    LET applied   == ApplyRules(Len(cfg.rules), data, cfg)
        riskScore == FMin(applied.totalScore, Num(100))
    IN  [ riskScore |-> riskScore,
          triggeredRules |-> applied.triggeredRules,
          explanation |-> "",
          isHighRisk |-> FLeq(cfg.threshold, riskScore) ]

(***************************************************************************)
(* Routing and explanation.                                                *)
(***************************************************************************)
\* determineRouting testing the wider band first
determineRoutingSwapped(result) ==
    IF result.isHighRisk THEN [provider |-> "blocked", status |-> "blocked"]
    ELSE IF FLess(result.riskScore, Num(40)) THEN [provider |-> "paypal", status |-> "success"]
    ELSE IF FLess(result.riskScore, Num(20)) THEN [provider |-> "stripe", status |-> "success"]
    ELSE [provider |-> "stripe", status |-> "success"]

determineRouting(result) ==
    IF result.isHighRisk THEN [provider |-> "blocked", status |-> "blocked"]
    ELSE IF FLess(result.riskScore, Num(20)) THEN [provider |-> "stripe", status |-> "success"]
    ELSE IF FLess(result.riskScore, Num(40)) THEN [provider |-> "paypal", status |-> "success"]
    ELSE [provider |-> "stripe", status |-> "success"]

\* "This payment was {blocked | routed to <provider>} due to a <level> risk
\* score (<score>) based on <rules>.", kept as the parts that vary
generateFallbackExplanation(result, provider, status) ==
    LET riskLevel == IF FLess(result.riskScore, Num(30)) THEN "low"
                     ELSE IF FLess(result.riskScore, Num(70)) THEN "moderate" ELSE "high"
    IN  << "This payment was", IF status = "blocked" THEN "blocked" ELSE provider,
           riskLevel, toFixed2(result.riskScore), result.triggeredRules >>

generateCacheKey(data, result, provider, status) ==
    <<data.amount, data.currency, data.domain, toFixed2(result.riskScore), provider, status>>

\* Map.get: the value stored under the key, or undefined
CacheGet(c, key) ==
    IF \E i \in DOMAIN c : c[i].key = key
    THEN Some(c[CHOOSE i \in DOMAIN c : c[i].key = key].value)
    ELSE Undefined

\* Map.set: an existing key keeps its place, a new key goes last
CacheSet(c, key, value) ==
    IF \E i \in DOMAIN c : c[i].key = key
    THEN [i \in DOMAIN c |-> IF c[i].key = key THEN [key |-> key, value |-> value] ELSE c[i]]
    ELSE Append(c, [key |-> key, value |-> value])

CacheLimit == 100
CacheEvict == 20

\* cleanupCache deleting the entries stored last
cleanupCacheLatest(c) ==
    IF Len(c) > CacheLimit THEN SubSeq(c, 1, Len(c) - CacheEvict) ELSE c

cleanupCache(c) ==
    IF Len(c) > CacheLimit THEN SubSeq(c, CacheEvict + 1, Len(c)) ELSE c

\* what the completion request can answer: a text, or no content at all
LlmText == <<"Generated explanation">>
Completions == {Some(LlmText), Undefined}

(***************************************************************************)
(* Amount context of a payment.                                            *)
(***************************************************************************)
RECURSIVE Sum(_)
Sum(amounts) == IF amounts = <<>> THEN 0 ELSE Head(amounts) + Sum(Tail(amounts))

RECURSIVE BigSum(_)
BigSum(bigs) == IF bigs = <<>> THEN <<>> ELSE BigAdd(Head(bigs), BigSum(Tail(bigs)))

\* the email lookup that is content with a part of the email
getTransactionsByEmailPart(txs, email) ==
    SelectSeq(txs, LAMBDA t : Includes(ToLowerCase(t.email), ToLowerCase(email)))

\* the email lookup that tells upper case from lower case
getTransactionsByEmailCaseSensitive(txs, email) ==
    SelectSeq(txs, LAMBDA t : t.email = email)

getTransactionsByEmail(txs, email) ==
    SelectSeq(txs, LAMBDA t : ToLowerCase(t.email) = ToLowerCase(email))

getUserTransactionHistory(txs, email) ==
    LET found == getTransactionsByEmail(txs, email)
    IN  [i \in DOMAIN found |-> found[i].amount]

\* the mean, as the fraction num / den
calculateAverage(amounts) ==
    IF Len(amounts) = 0 THEN [num |-> 0, den |-> 1]
    ELSE [num |-> Sum(amounts), den |-> Len(amounts)]

\* the square root of num / den: with n amounts of sum S the variance is
\* the sum of the (n * a - S)^2 over n^3
calculateStandardDeviation(amounts, average) ==
    IF Len(amounts) = 0 THEN [num |-> <<>>, den |-> 1]
    ELSE LET n == Len(amounts)
             dev(a) == ToBig(Abs(a * average.den - average.num))
         IN  [ num |-> BigSum([i \in DOMAIN amounts |-> BigMul(dev(amounts[i]), dev(amounts[i]))]),
               den |-> n * average.den * average.den ]

Retail == <<"r", "e", "t", "a", "i", "l">>
getMerchantCategory == Retail
getCreditCardLimit == 500000

getReportingThreshold(currency) ==
    IF currency \in {"USD", "EUR", "GBP", "CAD", "AUD"} THEN 1000000 ELSE 1000000

enrichTransactionAmountData(txs, request) ==
    LET previousAmounts == getUserTransactionHistory(txs, request.email)
        userAverageAmount == calculateAverage(previousAmounts)
    IN  [ amount |-> request.amount,
          currency |-> request.currency,
          previousAmounts |-> previousAmounts,
          userAverageAmount |-> userAverageAmount,
          userStandardDeviation |-> calculateStandardDeviation(previousAmounts, userAverageAmount),
          merchantCategory |-> getMerchantCategory,
          isFirstTimeTransaction |-> Len(previousAmounts) = 0,
          creditCardLimit |-> getCreditCardLimit,
          reportingThreshold |-> getReportingThreshold(request.currency) ]

(***************************************************************************)
(* State.                                                                  *)
(***************************************************************************)
VARIABLES
    config,         \* FraudDetectionService.config
    transactions,   \* InMemoryTransactionLogger.transactions
    cache,          \* OpenAIService.cache, in insertion order
    procs,          \* the processPayment calls in flight, one per slot
    now,            \* the clock (new Date())
    nextId,         \* the identifiers uuidv4 has handed out
    started,        \* processPayment calls started so far
    returned,       \* history: what each finished processPayment call answered
    analysis,       \* the outcome of a direct analyzeRisk call
    created,        \* the record createTransaction last answered to a direct caller
    call,           \* the last direct call of the ledger or of the explainer, with its answer
    storedAt,       \* history: when a direct call of generateExplanation cached each explanation
    attempts        \* the CacheService of the detector that knows rapid_fire_transactions

vars ==
    <<config, transactions, cache, procs, now, nextId, started, returned, analysis, created, call,
      storedAt, attempts>>

Procs == 1..NumProcs

EmailTestRu == <<"u", "s", "e", "r", "@", "t", "e", "s", "t", ".", "r", "u">>
EmailTrusted == <<"u", "s", "e", "r", "@", "t", "r", "u", "s", "t", "e", "d", ".", "c", "o", "m">>
EmailExample == <<"u", "s", "e", "r", "@", "e", "x", "a", "m", "p", "l", "e", ".", "c", "o", "m">>
EmailDigits == <<"1", "2", "3", "4", "5", "@", "E", "x", "a", "m", "p", "l", "e", ".", "c", "o", "m">>
EmailInvalid == <<"i", "n", "v", "a", "l", "i", "d", " ", "e", "m", "a", "i", "l">>

PaymentRequest(amount, email) ==
    [amount |-> amount, currency |-> "USD", source |-> "tok_test", email |-> email]

\* the payments submitted to processPayment
Requests ==
    { PaymentRequest(1000000, EmailTestRu),
      PaymentRequest(5000, EmailTrusted),
      PaymentRequest(10000, EmailTrusted),
      PaymentRequest(10000, EmailExample) }

\* the partial configurations given to updateConfig while payments run
PaymentPartials == { [threshold |-> Num(70), largeAmountThreshold |-> 1000000] }

Idle ==
    [ pc |-> "idle", request |-> Undefined, fraudData |-> Undefined,
      fraudResult |-> Undefined, scoredWith |-> Undefined, routing |-> Undefined,
      explanation |-> Undefined ]

Init ==
    /\ config = FraudDetectionService
    /\ transactions = <<>>
    /\ cache = <<>>
    /\ procs = [p \in Procs |-> Idle]
    /\ now = 0
    /\ nextId = 0
    /\ started = 0
    /\ returned = <<>>
    /\ analysis = Undefined
    /\ created = Undefined
    /\ call = Undefined
    /\ storedAt = {}
    /\ attempts = <<>>

(***************************************************************************)
(* FraudDetectionService.updateConfig                                      *)
(***************************************************************************)
updateConfig(partial) ==
    /\ analysis = Undefined
    /\ config' = MergeConfig(config, partial)
    /\ config' # config
    /\ UNCHANGED <<transactions, cache, procs, now, nextId, started, returned, analysis,
                   created, call, storedAt, attempts>>

(***************************************************************************)
(* PaymentRoutingService.processPayment. Its awaits before the completion  *)
(* request are on promises that are already settled and read shared state  *)
(* only, so the call runs as one step up to that request; the request is   *)
(* the one await on input/output, where other calls get to run.            *)
(***************************************************************************)
processPayment(p, request) ==
    /\ procs[p].pc = "idle"
    /\ \A q \in 1..(p - 1) : procs[q].pc # "idle"
    /\ started < MaxPayments
    /\ \E fraudData \in
            { [ amount |-> request.amount,
                currency |-> request.currency,
                email |-> request.email,
                domain |-> extractDomainFromEmail(request.email),
                timestamp |-> now,
                transactionAmount |-> Some(enrichTransactionAmountData(transactions, request)) ] } :
       \E fraudResult \in {analyzeRisk(fraudData, config)} :
       \E routing \in {determineRouting(fraudResult)} :
       \* generateExplanation, up to the completion request
       \E cacheKey \in {generateCacheKey(fraudData, fraudResult, routing.provider, routing.status)} :
       \E cachedExplanation \in {CacheGet(cache, cacheKey)} :
          procs' = [procs EXCEPT ![p] =
               [ pc |-> IF cachedExplanation # Undefined THEN "explained" ELSE "calling",
                 request |-> Some(request),
                 fraudData |-> Some(fraudData),
                 fraudResult |-> Some(fraudResult),
                 scoredWith |-> Some(config),
                 routing |-> Some(routing),
                 explanation |-> cachedExplanation ]]
    /\ started' = started + 1
    /\ UNCHANGED <<config, transactions, cache, now, nextId, returned, analysis, created,
                   call, storedAt, attempts>>

\* createTransaction with an identifier that repeats
createTransactionSameId(id, timestamp, data) ==
    [ id |-> 1, timestamp |-> timestamp,
      amount |-> data.amount, currency |-> data.currency, email |-> data.email,
      source |-> data.source, provider |-> data.provider, status |-> data.status,
      riskScore |-> data.riskScore, explanation |-> data.explanation,
      metadata |-> data.metadata ]

createTransaction(id, timestamp, data) ==
    [ id |-> id, timestamp |-> timestamp,
      amount |-> data.amount, currency |-> data.currency, email |-> data.email,
      source |-> data.source, provider |-> data.provider, status |-> data.status,
      riskScore |-> data.riskScore, explanation |-> data.explanation,
      metadata |-> data.metadata ]

addTransaction(txs, transaction) == Append(txs, transaction)

\* getTransaction that takes the identifier for a position in the array
getTransactionByPosition(txs, id) ==
    IF id \in DOMAIN txs THEN Some(txs[id]) ELSE Undefined

getTransaction(txs, id) ==
    IF \E i \in DOMAIN txs : txs[i].id = id
    THEN Some(txs[CHOOSE i \in DOMAIN txs : txs[i].id = id /\ \A j \in 1..(i - 1) : txs[j].id # id])
    ELSE Undefined

\* processPayment once generateExplanation has answered: createTransaction,
\* addTransaction and the response, at time t
LogTransaction(p, explanation, failed, t) ==
    LET request == procs[p].request[1]
        result  == procs[p].fraudResult[1]
        routing == procs[p].routing[1]
        transaction ==
            createTransaction(nextId + 1, t,
                [ amount |-> request.amount, currency |-> request.currency,
                  email |-> request.email, source |-> request.source,
                  provider |-> routing.provider, status |-> routing.status,
                  riskScore |-> result.riskScore,
                  explanation |-> explanation,
                  metadata |-> [ triggeredRules |-> result.triggeredRules,
                                 isHighRisk |-> result.isHighRisk ] ])
        response ==
            [ transactionId |-> transaction.id,
              provider |-> routing.provider,
              status |-> routing.status,
              riskScore |-> result.riskScore,
              explanation |-> explanation,
              timestamp |-> transaction.timestamp ]
    IN  /\ now' = t
        /\ nextId' = nextId + 1
        /\ transactions' = addTransaction(transactions, transaction)
        /\ returned' = Append(returned,
               [ request |-> request,
                 response |-> response,
                 config |-> procs[p].scoredWith[1],
                 history |-> procs[p].fraudData[1].transactionAmount[1].previousAmounts,
                 failed |-> failed ])
        /\ procs' = [procs EXCEPT ![p] = Idle]

\* the completion request answers: the explanation is stored in the cache,
\* and processPayment runs to its end
OpenAIReturns(p, content) ==
    /\ procs[p].pc = "calling"
    /\ LET result  == procs[p].fraudResult[1]
           routing == procs[p].routing[1]
           cacheKey == generateCacheKey(procs[p].fraudData[1], result, routing.provider, routing.status)
           explanation == IF content # Undefined THEN content[1]
                          ELSE generateFallbackExplanation(result, routing.provider, routing.status)
       IN  /\ cache' = cleanupCache(CacheSet(cache, cacheKey, explanation))
           /\ \E t \in now..MaxTime : LogTransaction(p, explanation, FALSE, t)
    /\ UNCHANGED <<config, started, analysis, created, call, storedAt, attempts>>

\* generateExplanation without its catch block: processPayment rejects
OpenAIFailsPropagates(p) ==
    /\ procs[p].pc = "calling"
    /\ procs' = [procs EXCEPT ![p] = Idle]
    /\ UNCHANGED <<config, transactions, cache, now, nextId, started, returned, analysis,
                   created, call, storedAt, attempts>>

\* the completion request throws: the catch block answers the fallback
\* explanation, and processPayment runs to its end
OpenAIFails(p) ==
    /\ procs[p].pc = "calling"
    /\ LET result  == procs[p].fraudResult[1]
           routing == procs[p].routing[1]
           explanation == generateFallbackExplanation(result, routing.provider, routing.status)
       IN  \E t \in now..MaxTime : LogTransaction(p, explanation, TRUE, t)
    /\ UNCHANGED <<config, cache, started, analysis, created, call, storedAt, attempts>>

\* the explanation came from the cache: processPayment runs to its end
CachedExplanation(p) ==
    /\ procs[p].pc = "explained"
    /\ \E t \in now..MaxTime : LogTransaction(p, procs[p].explanation[1], FALSE, t)
    /\ UNCHANGED <<config, cache, started, analysis, created, call, storedAt, attempts>>

Next ==
    \/ \E partial \in PaymentPartials : updateConfig(partial)
    \/ \E p \in Procs, request \in Requests : processPayment(p, request)
    \/ \E p \in Procs, content \in Completions : OpenAIReturns(p, content)
    \/ \E p \in Procs : OpenAIFails(p)
    \/ \E p \in Procs : CachedExplanation(p)

Spec == Init /\ [][Next]_vars

(***************************************************************************)
(* Direct calls of FraudDetectionService.analyzeRisk, on analysis data     *)
(* with or without an amount context, under the configurations that        *)
(* updateConfig reaches.                                                   *)
(***************************************************************************)
DocumentedDomains == <<DotRu, DotTestCom, DotExampleCom>>

AnalysisPartials ==
    { [threshold |-> Num(70), largeAmountThreshold |-> 1000000],
      [threshold |-> Num(30)],
      [suspiciousDomains |-> DocumentedDomains],
      [rules |-> SubSeq(getDefaultRules, 1, 5)] }

\* amounts in cents: 9950.00 and 9999.99 lie within 1% under 10000
AnalysisAmounts ==
    {-10000, 500, 5000, 10000, 50000, 60050, 150050, 995000, 999999, 1000000}

AnalysisEmails == {EmailTestRu, EmailTrusted, EmailExample, EmailDigits, EmailInvalid}

Grocery == <<"G", "r", "o", "c", "e", "r", "y">>
Casino == <<"c", "a", "s", "i", "n", "o">>

\* a TransactionAmountData for a payer with the given history
AmountContext(amount, previousAmounts, merchantCategory, creditCardLimit, reportingThreshold) ==
    LET userAverageAmount == calculateAverage(previousAmounts)
    IN  [ amount |-> amount,
          currency |-> "USD",
          previousAmounts |-> previousAmounts,
          userAverageAmount |-> userAverageAmount,
          userStandardDeviation |-> calculateStandardDeviation(previousAmounts, userAverageAmount),
          merchantCategory |-> merchantCategory,
          isFirstTimeTransaction |-> Len(previousAmounts) = 0,
          creditCardLimit |-> creditCardLimit,
          reportingThreshold |-> reportingThreshold ]

AnalysisContexts(amount) ==
    { Undefined,
      Some(AmountContext(amount, <<>>, Retail, 500000, 1000000)),
      Some(AmountContext(amount, <<10000, 20000, 30000, 40000>>, Retail, 500000, 1000000)),
      Some(AmountContext(amount, <<10000, 5000, 30000, 20000>>, Retail, 500000, 1000000)),
      Some(AmountContext(amount, <<599, 350>>, Retail, 500000, 1000000)),
      Some(AmountContext(amount, <<500>>, Retail, 500000, 1000000)),
      Some(AmountContext(amount, <<100, 200, 300, 400, 100, 100, 100>>, Retail, 500000, 1000000)),
      Some(AmountContext(amount, <<100, 200, 300, 400>>, Retail, 500000, 1000000)),
      Some(AmountContext(amount, <<5000>>, Grocery, 100000, 0)),
      Some(AmountContext(amount, <<>>, Casino, 0, 60000)) }

\* payments in US dollars with every context, and payments in euros without one
AnalysisData ==
    { [ amount |-> amount, currency |-> "USD", email |-> email,
        domain |-> extractDomainFromEmail(email), timestamp |-> 0,
        transactionAmount |-> transactionAmount ] :
      <<amount, email, transactionAmount>> \in
          UNION { {<<a, e, c>> : e \in AnalysisEmails, c \in AnalysisContexts(a)} : a \in AnalysisAmounts } }
    \cup
    { [ amount |-> amount, currency |-> "EUR", email |-> EmailTrusted,
        domain |-> extractDomainFromEmail(EmailTrusted), timestamp |-> 0,
        transactionAmount |-> Undefined ] : amount \in {100000, 150050} }

\* a caller awaits analyzeRisk(data)
AnalyzeRiskCall(data) ==
    /\ analysis = Undefined
    /\ analysis' = Some([data |-> data, result |-> analyzeRisk(data, config)])
    /\ UNCHANGED <<config, transactions, cache, procs, now, nextId, started, returned,
                   created, call, storedAt, attempts>>

\* the caller is done with the result
AnalyzeRiskDone ==
    /\ analysis # Undefined
    /\ analysis' = Undefined
    /\ UNCHANGED <<config, transactions, cache, procs, now, nextId, started, returned,
                   created, call, storedAt, attempts>>

NextAnalyze ==
    \/ \E partial \in AnalysisPartials : updateConfig(partial)
    \/ \E data \in AnalysisData : AnalyzeRiskCall(data)
    \/ AnalyzeRiskDone

SpecAnalyze == Init /\ [][NextAnalyze]_vars

(***************************************************************************)
(* InMemoryTransactionLogger, called directly: the reads of the ledger.    *)
(* An optional field of a query is Undefined or Some(value).               *)
(***************************************************************************)
MaxLedger == 3

\* the ledger's own array instead of a copy of it
SameArray(txs) == [array |-> txs, alias |-> TRUE]

\* [...this.transactions]: a new array with the same elements
CopyOf(txs) == [array |-> txs, alias |-> FALSE]

getAllTransactions(txs) == CopyOf(txs)

getTransactionsByStatus(txs, status) == SelectSeq(txs, LAMBDA t : t.status = status)

getTransactionsByDateRange(txs, startDate, endDate) ==
    SelectSeq(txs, LAMBDA t : t.timestamp >= startDate /\ t.timestamp <= endDate)

clearTransactions == <<>>

\* the UTF-16 code unit of a character
CodeUnit(c) ==
    LET DigitChars == <<"0", "1", "2", "3", "4", "5", "6", "7", "8", "9">>
        IndexOf(s) == CHOOSE i \in DOMAIN s : s[i] = c
    IN
    CASE c \in Range(UpperCase) -> 64 + IndexOf(UpperCase)
      [] c \in Range(LowerCase) -> 96 + IndexOf(LowerCase)
      [] c \in Range(DigitChars) -> 47 + IndexOf(DigitChars)
      [] c = " " -> 32
      [] c = "-" -> 45
      [] c = "." -> 46
      [] c = "@" -> 64
      [] c = "_" -> 95

\* a < b on strings: by code units, a proper prefix first
StrLess(a, b) ==
    \E k \in 1..Len(b) :
        /\ k <= Len(a) + 1
        /\ SubSeq(a, 1, k - 1) = SubSeq(b, 1, k - 1)
        /\ k = Len(a) + 1 \/ CodeUnit(a[k]) < CodeUnit(b[k])

\* the filters of queryTransactions with date bounds that shut out the
\* bounds themselves
filterTransactionsExclusive(txs, query) ==
    LET byEmail == IF query.email # Undefined /\ query.email[1] # <<>>
                   THEN SelectSeq(txs, LAMBDA t : Includes(ToLowerCase(t.email), ToLowerCase(query.email[1])))
                   ELSE txs
        byStatus == IF query.status # Undefined /\ query.status[1] # ""
                    THEN SelectSeq(byEmail, LAMBDA t : t.status = query.status[1])
                    ELSE byEmail
        byProvider == IF query.provider # Undefined /\ query.provider[1] # ""
                      THEN SelectSeq(byStatus, LAMBDA t : t.provider = query.provider[1])
                      ELSE byStatus
        fromStart == IF query.startDate # Undefined
                     THEN SelectSeq(byProvider, LAMBDA t : t.timestamp > query.startDate[1])
                     ELSE byProvider
    IN  IF query.endDate # Undefined
        THEN SelectSeq(fromStart, LAMBDA t : t.timestamp < query.endDate[1])
        ELSE fromStart

\* the filters of queryTransactions, in the order they are applied; a filter
\* is skipped when its field is falsy: undefined or the empty string
filterTransactions(txs, query) ==
    LET byEmail == IF query.email # Undefined /\ query.email[1] # <<>>
                   THEN SelectSeq(txs, LAMBDA t : Includes(ToLowerCase(t.email), ToLowerCase(query.email[1])))
                   ELSE txs
        byStatus == IF query.status # Undefined /\ query.status[1] # ""
                    THEN SelectSeq(byEmail, LAMBDA t : t.status = query.status[1])
                    ELSE byEmail
        byProvider == IF query.provider # Undefined /\ query.provider[1] # ""
                      THEN SelectSeq(byStatus, LAMBDA t : t.provider = query.provider[1])
                      ELSE byStatus
        fromStart == IF query.startDate # Undefined
                     THEN SelectSeq(byProvider, LAMBDA t : t.timestamp >= query.startDate[1])
                     ELSE byProvider
    IN  IF query.endDate # Undefined
        THEN SelectSeq(fromStart, LAMBDA t : t.timestamp <= query.endDate[1])
        ELSE fromStart

\* a comparator that takes no notice of sortOrder and puts the earlier
\* timestamp first when no sortBy is given
compareTransactionsAscending(query, a, b) ==
    IF query.sortBy # Undefined /\ query.sortBy[1] # ""
    THEN LET sortBy == query.sortBy[1]
             Value(t) == CASE sortBy = "amount" -> t.amount
                           [] sortBy = "riskScore" -> t.riskScore
                           [] sortBy = "email" -> t.email
                           [] OTHER -> t.timestamp
             Less(x, y) == CASE sortBy = "riskScore" -> FLess(x, y)
                             [] sortBy = "email" -> StrLess(x, y)
                             [] OTHER -> x < y
         IN  IF Less(Value(a), Value(b)) THEN -1
             ELSE IF Less(Value(b), Value(a)) THEN 1
             ELSE 0
    ELSE a.timestamp - b.timestamp

\* the comparator queryTransactions hands to Array.prototype.sort
compareTransactions(query, a, b) ==
    IF query.sortBy # Undefined /\ query.sortBy[1] # ""
    THEN LET sortBy == query.sortBy[1]
             Value(t) == CASE sortBy = "amount" -> t.amount
                           [] sortBy = "riskScore" -> t.riskScore
                           [] sortBy = "email" -> t.email
                           [] OTHER -> t.timestamp
             Less(x, y) == CASE sortBy = "riskScore" -> FLess(x, y)
                             [] sortBy = "email" -> StrLess(x, y)
                             [] OTHER -> x < y
             aValue == Value(a)
             bValue == Value(b)
         IN  IF Less(aValue, bValue)
             THEN (IF query.sortOrder = Some("desc") THEN 1 ELSE -1)
             ELSE IF Less(bValue, aValue)
             THEN (IF query.sortOrder = Some("desc") THEN -1 ELSE 1)
             ELSE 0
    ELSE b.timestamp - a.timestamp

\* Array.prototype.sort is stable: an element goes before the first element
\* of the sorted part that compares greater than it
RECURSIVE InsertSorted(_, _, _)
InsertSorted(sorted, x, query) ==
    IF sorted = <<>> THEN <<x>>
    ELSE IF compareTransactions(query, Head(sorted), x) > 0 THEN <<x>> \o sorted
    ELSE <<Head(sorted)>> \o InsertSorted(Tail(sorted), x, query)

RECURSIVE sortTransactions(_, _)
sortTransactions(txs, query) ==
    IF txs = <<>> THEN <<>>
    ELSE InsertSorted(sortTransactions(SubSeq(txs, 1, Len(txs) - 1), query), txs[Len(txs)], query)

\* pages counted from 0
paginateFromZero(txs, query) ==
    IF query.page # Undefined /\ query.page[1] # 0 /\ query.limit # Undefined /\ query.limit[1] # 0
    THEN LET startIndex == query.page[1] * query.limit[1]
             endIndex == startIndex + query.limit[1]
         IN  SubSeq(txs, startIndex + 1, IF endIndex < Len(txs) THEN endIndex ELSE Len(txs))
    ELSE txs

\* the page of queryTransactions: slice(startIndex, endIndex), indexes from
\* 0, when page and limit are truthy: neither undefined nor 0
paginate(txs, query) ==
    IF query.page # Undefined /\ query.page[1] # 0 /\ query.limit # Undefined /\ query.limit[1] # 0
    THEN LET startIndex == (query.page[1] - 1) * query.limit[1]
             endIndex == startIndex + query.limit[1]
         IN  SubSeq(txs, startIndex + 1, IF endIndex < Len(txs) THEN endIndex ELSE Len(txs))
    ELSE txs

queryTransactions(txs, query) ==
    paginate(sortTransactions(filterTransactions(txs, query), query), query)

\* the average without the test on total: 0 / 0 on an empty ledger
getTransactionStatsUnguarded(txs) ==
    LET total == Len(txs)
        totalAmount == Sum([i \in DOMAIN txs |-> txs[i].amount])
    IN  [ total |-> total,
          byStatus |-> [s \in {txs[i].status : i \in DOMAIN txs} |->
                          Cardinality({i \in DOMAIN txs : txs[i].status = s})],
          byProvider |-> [p \in {txs[i].provider : i \in DOMAIN txs} |->
                            Cardinality({i \in DOMAIN txs : txs[i].provider = p})],
          totalAmount |-> totalAmount,
          averageAmount |-> [num |-> totalAmount, den |-> total] ]

\* byStatus and byProvider are the maps from the values that occur to their
\* counts; averageAmount is the fraction num / den
getTransactionStats(txs) ==
    LET total == Len(txs)
        totalAmount == Sum([i \in DOMAIN txs |-> txs[i].amount])
    IN  [ total |-> total,
          byStatus |-> [s \in {txs[i].status : i \in DOMAIN txs} |->
                          Cardinality({i \in DOMAIN txs : txs[i].status = s})],
          byProvider |-> [p \in {txs[i].provider : i \in DOMAIN txs} |->
                            Cardinality({i \in DOMAIN txs : txs[i].provider = p})],
          totalAmount |-> totalAmount,
          averageAmount |-> IF total > 0 THEN [num |-> totalAmount, den |-> total]
                            ELSE [num |-> 0, den |-> 1] ]

(***************************************************************************)
(* Direct calls of the ledger, as its tests make them: createTransaction   *)
(* answers a record, addTransaction stores the record it is handed, built  *)
(* by createTransaction or by hand, and every read answers its caller; the *)
(* caller takes the answer before it makes its next call.                  *)
(***************************************************************************)
TransactionData(amount, email, provider, status, riskScore) ==
    [ amount |-> amount, currency |-> "USD", email |-> email, source |-> "tok_test",
      provider |-> provider, status |-> status, riskScore |-> riskScore,
      explanation |-> LlmText, metadata |-> Undefined ]

\* the fields handed to createTransaction
LedgerData ==
    { TransactionData(10000, EmailTrusted, "stripe", "success", Num(20)),
      TransactionData(20000, EmailTestRu, "blocked", "blocked", Num(90)) }

\* a record built by hand, with the identifier 'test-id' (0: uuidv4 hands
\* out 1, 2, ...) and a timestamp that is no later than the clock
TestTransaction ==
    createTransaction(0, 0, TransactionData(5000, EmailDigits, "paypal", "success", Num(30)))

UserAtTrustedUpper == <<"U", "S", "E", "R", "@", "T", "R", "U", "S", "T", "E", "D", ".", "C", "O", "M">>

Optional(S) == {Undefined} \cup {Some(v) : v \in S}

NoQuery ==
    [ email |-> Undefined, status |-> Undefined, provider |-> Undefined,
      startDate |-> Undefined, endDate |-> Undefined, sortBy |-> Undefined,
      sortOrder |-> Undefined, page |-> Undefined, limit |-> Undefined ]

\* the queries handed to queryTransactions: filters, sorts, pages
Queries ==
    { [NoQuery EXCEPT !.email = e, !.status = s, !.provider = p] :
        e \in Optional({SubSeq(UserAtTrustedUpper, 6, 12)}), s \in Optional({"success"}), p \in Optional({"stripe"}) }
    \cup
    { [NoQuery EXCEPT !.status = s, !.startDate = a, !.endDate = b] :
        s \in Optional({"success"}), a \in Optional(0..MaxTime), b \in Optional(0..MaxTime) }
    \cup
    { [NoQuery EXCEPT !.status = s, !.sortBy = k, !.sortOrder = o] :
        s \in Optional({"success"}), k \in Optional({"timestamp", "amount", "riskScore", "email"}), o \in Optional({"asc", "desc"}) }
    \cup
    { [NoQuery EXCEPT !.sortBy = k, !.page = page, !.limit = limit] :
        k \in Optional({"amount"}), page \in Optional(1..MaxLedger), limit \in Optional(1..MaxLedger) }

Call(op, args, result) == Some([op |-> op, args |-> args, result |-> result, store |-> transactions])

CreateTransaction(data, t) ==
    /\ call = Undefined
    /\ created = Undefined
    /\ nextId < MaxLedger
    /\ now' = t
    /\ nextId' = nextId + 1
    /\ created' = Some(createTransaction(nextId + 1, t, data))
    /\ call' = Call("createTransaction", <<data>>, created'[1])
    /\ UNCHANGED <<config, transactions, cache, procs, started, returned, analysis, storedAt,
                   attempts>>

\* the caller hands over the record createTransaction answered, once, or a
\* record built by hand
AddTransaction(transaction) ==
    /\ call = Undefined
    /\ Len(transactions) < MaxLedger
    /\ transactions' = addTransaction(transactions, transaction)
    /\ created' = IF created = Some(transaction) THEN Undefined ELSE created
    /\ call' = Call("addTransaction", <<transaction>>, Undefined)
    /\ UNCHANGED <<config, cache, procs, now, nextId, started, returned, analysis, storedAt,
                   attempts>>

ClearTransactions ==
    /\ call = Undefined
    /\ transactions' = clearTransactions
    /\ call' = Call("clearTransactions", <<>>, Undefined)
    /\ UNCHANGED <<config, cache, procs, now, nextId, started, returned, analysis, created,
                   storedAt, attempts>>

\* a read of the ledger answers its caller
Read(op, args, result) ==
    /\ call = Undefined
    /\ call' = Call(op, args, result)
    /\ UNCHANGED <<config, transactions, cache, procs, now, nextId, started, returned,
                   analysis, created, storedAt, attempts>>

GetTransaction(id) == Read("getTransaction", <<id>>, getTransaction(transactions, id))

GetTransactionsByEmail(email) ==
    Read("getTransactionsByEmail", <<email>>, getTransactionsByEmail(transactions, email))

GetTransactionsByStatus(status) ==
    Read("getTransactionsByStatus", <<status>>, getTransactionsByStatus(transactions, status))

GetTransactionsByDateRange(startDate, endDate) ==
    Read("getTransactionsByDateRange", <<startDate, endDate>>,
         getTransactionsByDateRange(transactions, startDate, endDate))

\* filter answers a new array and sort works in place: the sort reorders
\* the ledger's own array if filteredTransactions, which no filter has
\* replaced, is that array
QueryTransactions(query) ==
    /\ call = Undefined
    /\ call' = Call("queryTransactions", <<query>>, queryTransactions(transactions, query))
    /\ LET replaced ==
               \/ (query.email # Undefined /\ query.email[1] # <<>>)
               \/ (query.status # Undefined /\ query.status[1] # "")
               \/ (query.provider # Undefined /\ query.provider[1] # "")
               \/ query.startDate # Undefined
               \/ query.endDate # Undefined
       IN  transactions' = IF CopyOf(transactions).alias /\ ~replaced
                           THEN sortTransactions(transactions, query)
                           ELSE transactions
    /\ UNCHANGED <<config, cache, procs, now, nextId, started, returned, analysis, created,
                   storedAt, attempts>>

GetTransactionStats == Read("getTransactionStats", <<>>, getTransactionStats(transactions))

GetAllTransactions == Read("getAllTransactions", <<>>, getAllTransactions(transactions))

\* the caller of getAllTransactions pops the last element off the array it
\* was answered; the ledger's own array changes if that is the same array
MutateReturned ==
    /\ call # Undefined
    /\ call[1].op = "getAllTransactions"
    /\ call[1].result.array # <<>>
    /\ \E popped \in {SubSeq(call[1].result.array, 1, Len(call[1].result.array) - 1)} :
          /\ call' = Some([call[1] EXCEPT !.op = "pop", !.result.array = popped])
          /\ transactions' = IF call[1].result.alias THEN popped ELSE transactions
    /\ UNCHANGED <<config, cache, procs, now, nextId, started, returned, analysis, created,
                   storedAt, attempts>>

\* the caller is done with the answer
LedgerCallDone ==
    /\ call # Undefined
    /\ call' = Undefined
    /\ UNCHANGED <<config, transactions, cache, procs, now, nextId, started, returned,
                   analysis, created, storedAt, attempts>>

NextLedger ==
    \/ \E data \in LedgerData, t \in 0..MaxTime : t >= now /\ CreateTransaction(data, t)
    \/ created # Undefined /\ AddTransaction(created[1])
    \/ AddTransaction(TestTransaction)
    \/ ClearTransactions
    \/ \E id \in 0..(MaxLedger + 1) : GetTransaction(id)
    \/ \E email \in {UserAtTrustedUpper, SubSeq(UserAtTrustedUpper, 6, 12), EmailTestRu} : GetTransactionsByEmail(email)
    \/ \E status \in {"success", "blocked", "pending"} : GetTransactionsByStatus(status)
    \/ \E startDate \in 0..MaxTime, endDate \in 0..MaxTime : GetTransactionsByDateRange(startDate, endDate)
    \/ \E query \in Queries : QueryTransactions(query)
    \/ GetTransactionStats
    \/ GetAllTransactions
    \/ MutateReturned
    \/ LedgerCallDone

SpecLedger == Init /\ [][NextLedger]_vars

(***************************************************************************)
(* The FraudDetectionService that knows rapid_fire_transactions: five      *)
(* rules of the configuration and the debounce rule, which keeps the time  *)
(* of the last attempt of each source and domain in a CacheService. The    *)
(* clock counts milliseconds here, from a start that is not zero.          *)
(***************************************************************************)
MaxAttempts == 4
ServiceStart == 1000
DebounceMs == 45000

\* Number.prototype.toString of a non-negative integer: its decimal digits
RECURSIVE NumberToString(_)
NumberToString(n) ==
    LET digit == CHOOSE c \in Digits : CodeUnit(c) = CodeUnit("0") + (n % 10)
    IN  IF n < 10 THEN <<digit>> ELSE Append(NumberToString(n \div 10), digit)

\* the unary plus on a string of decimal digits; the empty string is 0
RECURSIVE StringToNumber(_)
StringToNumber(s) ==
    IF s = <<>> THEN 0
    ELSE StringToNumber(SubSeq(s, 1, Len(s) - 1)) * 10 + (CodeUnit(s[Len(s)]) - CodeUnit("0"))

\* the key of the debounce that leaves the source out
generateCacheKeyOfDomain(data) == <<"-">> \o data.domain

generateCacheKeyOfData(data) == data.source \o <<"-">> \o data.domain

TokVisa == <<"t", "o", "k", "_", "v", "i", "s", "a">>
TokAmex == <<"t", "o", "k", "_", "a", "m", "e", "x">>

\* analysis data that names the source of the payment
RapidFireData ==
    { [ amount |-> 5050, currency |-> "USD", email |-> sourceEmail[2], source |-> sourceEmail[1],
        domain |-> extractDomainFromEmail(sourceEmail[2]), timestamp |-> 0,
        transactionAmount |-> Undefined ] :
      sourceEmail \in {<<TokVisa, EmailTrusted>>, <<TokAmex, EmailTrusted>>, <<TokVisa, EmailTestRu>>} }

\* analyzeRisk: the loop over the five rules and the debounce rule, which
\* reads the last attempt of the key and writes the time of this one
AnalyzeRiskRapidFire(data) ==
    /\ Len(returned) < MaxAttempts
    /\ \E cacheKey \in {generateCacheKeyOfData(data)} :
       \E stored \in {CacheGet(attempts, cacheKey)} :
       \E lastAttempt \in {StringToNumber(IF stored # Undefined THEN stored[1] ELSE <<"0">>)} :
       \E dateNow \in {ServiceStart + now} :
       \E rapid \in {IF lastAttempt # 0 THEN dateNow - lastAttempt < DebounceMs ELSE FALSE} :
       \E applied \in {ApplyRules(5, data, config)} :
       \E totalScore \in {IF rapid THEN FAdd(applied.totalScore, Num(30)) ELSE applied.totalScore} :
          /\ attempts' = CacheSet(attempts, cacheKey, NumberToString(dateNow))
          /\ returned' = Append(returned,
                [ data |-> data, at |-> dateNow,
                  result |-> [ riskScore |-> Num(toFixed2(FMin(totalScore, Num(100)))),
                               triggeredRules |->
                                   IF rapid THEN Append(applied.triggeredRules, "rapid_fire_transactions")
                                   ELSE applied.triggeredRules,
                               explanation |-> "",
                               isHighRisk |-> FLeq(config.threshold,
                                                   Num(toFixed2(FMin(totalScore, Num(100))))) ] ])
    /\ UNCHANGED <<config, transactions, cache, procs, now, nextId, started, analysis, created, call,
                   storedAt>>

\* time passes between two calls
TimePasses(ms) ==
    /\ now + ms <= 2 * DebounceMs
    /\ now' = now + ms
    /\ UNCHANGED <<config, transactions, cache, procs, nextId, started, returned, analysis, created,
                   call, storedAt, attempts>>

NextRapidFire ==
    \/ \E data \in RapidFireData : AnalyzeRiskRapidFire(data)
    \/ \E ms \in {DebounceMs - 1, DebounceMs} : TimePasses(ms)

SpecRapidFire == Init /\ [][NextRapidFire]_vars

(***************************************************************************)
(* OpenAIService.generateExplanation, called directly: the caller awaits   *)
(* one call at a time, and the clock moves on in steps of ten minutes,     *)
(* twice the time the documentation gives a cached explanation.            *)
(***************************************************************************)
CacheMinutes == 5

\* what generateExplanation is asked to explain
ExplainInputs ==
    { [ data |-> [amount |-> 10000, currency |-> "USD", domain |-> ExampleCom],
        result |-> [ riskScore |-> Num(20), triggeredRules |-> <<"test_domain">>,
                     explanation |-> "", isHighRisk |-> FALSE ],
        provider |-> "paypal", status |-> "success" ],
      [ data |-> [ amount |-> 1000000, currency |-> "USD",
                   domain |-> extractDomainFromEmail(EmailTestRu) ],
        result |-> [ riskScore |-> Num(90), triggeredRules |-> <<"large_amount", "suspicious_domain">>,
                     explanation |-> "", isHighRisk |-> TRUE ],
        provider |-> "blocked", status |-> "blocked" ] }

CacheKeyOf(input) == generateCacheKey(input.data, input.result, input.provider, input.status)

\* generateExplanation up to its answer from the cache or its completion request
GenerateExplanation(input) ==
    /\ call = Undefined
    /\ call' = Some([ op |-> "generateExplanation", args |-> <<input>>,
                      result |-> CacheGet(cache, CacheKeyOf(input)),
                      requested |-> FALSE, threw |-> FALSE, at |-> now,
                      known |-> {e \in storedAt : e.key = CacheKeyOf(input)} ])
    /\ UNCHANGED <<config, transactions, cache, procs, now, nextId, started, returned, analysis,
                   created, storedAt, attempts>>

Awaiting == call # Undefined /\ call[1].op = "generateExplanation" /\ call[1].result = Undefined

\* the completion request answers: the explanation is cached and answered
CompletionReturns(content) ==
    /\ Awaiting
    /\ LET input == call[1].args[1]
           explanation == IF content # Undefined THEN content[1]
                          ELSE generateFallbackExplanation(input.result, input.provider, input.status)
       IN  /\ cache' = cleanupCache(CacheSet(cache, CacheKeyOf(input), explanation))
           /\ storedAt' = {e \in storedAt : e.key # CacheKeyOf(input)}
                             \cup {[key |-> CacheKeyOf(input), at |-> now, value |-> explanation]}
           /\ call' = Some([call[1] EXCEPT !.result = Some(explanation), !.requested = TRUE])
    /\ UNCHANGED <<config, transactions, procs, now, nextId, started, returned, analysis, created,
                   attempts>>

\* the completion request throws: the fallback explanation is answered
CompletionFails ==
    /\ Awaiting
    /\ LET input == call[1].args[1]
       IN  call' = Some([call[1] EXCEPT
                   !.result = Some(generateFallbackExplanation(input.result, input.provider, input.status)),
                   !.requested = TRUE, !.threw = TRUE])
    /\ UNCHANGED <<config, transactions, cache, procs, now, nextId, started, returned, analysis,
                   created, storedAt, attempts>>

\* the caller is done with the explanation
ExplanationTaken ==
    /\ call # Undefined
    /\ call[1].op = "generateExplanation"
    /\ call[1].result # Undefined
    /\ call' = Undefined
    /\ UNCHANGED <<config, transactions, cache, procs, now, nextId, started, returned, analysis,
                   created, storedAt, attempts>>

\* ten minutes pass
ClockTick ==
    /\ now < MaxTime
    /\ now' = now + 1
    /\ UNCHANGED <<config, transactions, cache, procs, nextId, started, returned, analysis,
                   created, call, storedAt, attempts>>

NextExplain ==
    \/ \E input \in ExplainInputs : GenerateExplanation(input)
    \/ \E content \in Completions : CompletionReturns(content)
    \/ CompletionFails
    \/ ExplanationTaken
    \/ ClockTick

SpecExplain == Init /\ [][NextExplain]_vars

(***************************************************************************)
(* OpenAIService.generateExplanation asked for more explanations than the  *)
(* cache keeps: each call asks for the payment of the next amount that was *)
(* not explained yet, or again for the payment that was explained first;   *)
(* the completion request answers a text, or throws.                       *)
(***************************************************************************)
MaxKeys == 102

CacheInput(n) ==
    [ data |-> [amount |-> n * 100, currency |-> "USD", domain |-> ExampleCom],
      result |-> [ riskScore |-> Num(20), triggeredRules |-> <<"test_domain">>,
                   explanation |-> "", isHighRisk |-> FALSE ],
      provider |-> "paypal", status |-> "success" ]

NextCache ==
    \/ \E n \in {1, Cardinality(storedAt) + 1} :
          n <= MaxKeys /\ GenerateExplanation(CacheInput(n))
    \/ CompletionReturns(Some(LlmText))
    \/ CompletionFails
    \/ ExplanationTaken

SpecCache == Init /\ [][NextCache]_vars

(***************************************************************************)
(* The payment router: a request goes to the first route, in the order of  *)
(* registration, whose method and path match it; a thrown AppError ends    *)
(* the request with its status code. The server takes one request at a     *)
(* time here. An identifier in a path is the decimal string of the         *)
(* identifier of the model.                                                *)
(***************************************************************************)
\* router.post and router.get, in the order of registration
Routes ==
    << [method |-> "POST", path |-> <<"charge">>, handler |-> "processPayment"],
       [method |-> "GET", path |-> <<"transactions">>, handler |-> "getTransactions"],
       [method |-> "GET", path |-> <<"transactions", ":id">>, handler |-> "getTransactionById"],
       [method |-> "GET", path |-> <<"transactions", "stats">>, handler |-> "getTransactionStats"] >>

\* the handler of the first route that matches, or the notFoundHandler; a
\* segment ":id" of a route matches any segment
Dispatch(routes, method, path) ==
    LET matches(route) ==
            /\ route.method = method
            /\ Len(route.path) = Len(path)
            /\ \A i \in DOMAIN path : route.path[i] = ":id" \/ route.path[i] = path[i]
        matching == {i \in DOMAIN routes : matches(routes[i])}
    IN  IF matching = {} THEN "notFoundHandler"
        ELSE routes[CHOOSE i \in matching : \A j \in matching : i <= j].handler

\* a POST /charge with a valid body: PaymentController.processPayment around
\* PaymentRoutingService.processPayment, whose completion request answers
\* content, or throws when failed
PostCharge(request, content, failed, t) ==
    /\ Len(transactions) < MaxPayments
    /\ Dispatch(Routes, "POST", <<"charge">>) = "processPayment"
    /\ UNCHANGED <<config, procs, started, returned, analysis, created, storedAt, attempts>>
    /\ \E fraudData \in
              { [ amount |-> request.amount,
                  currency |-> request.currency,
                  email |-> request.email,
                  domain |-> extractDomainFromEmail(request.email),
                  timestamp |-> now,
                  transactionAmount |-> Some(enrichTransactionAmountData(transactions, request)) ] } :
        \E fraudResult \in {analyzeRisk(fraudData, config)} :
        \E routing \in {determineRouting(fraudResult)} :
        \E cacheKey \in {generateCacheKey(fraudData, fraudResult, routing.provider, routing.status)} :
        \E cachedExplanation \in {CacheGet(cache, cacheKey)} :
        \E explanation \in
              { IF cachedExplanation # Undefined THEN cachedExplanation[1]
                ELSE IF ~failed /\ content # Undefined THEN content[1]
                ELSE generateFallbackExplanation(fraudResult, routing.provider, routing.status) } :
        \E transaction \in
              { createTransaction(nextId + 1, t,
                    [ amount |-> request.amount, currency |-> request.currency,
                      email |-> request.email, source |-> request.source,
                      provider |-> routing.provider, status |-> routing.status,
                      riskScore |-> fraudResult.riskScore,
                      explanation |-> explanation,
                      metadata |-> [ triggeredRules |-> fraudResult.triggeredRules,
                                     isHighRisk |-> fraudResult.isHighRisk ] ]) } :
            /\ cache' = IF cachedExplanation = Undefined /\ ~failed
                        THEN cleanupCache(CacheSet(cache, cacheKey, explanation))
                        ELSE cache
            /\ now' = t
            /\ nextId' = nextId + 1
            /\ transactions' = addTransaction(transactions, transaction)
            /\ call' = Call("POST", <<"charge">>,
                            [handler |-> "processPayment", status |-> 200, body |->
                                     [ transactionId |-> transaction.id, provider |-> routing.provider,
                                       status |-> routing.status, riskScore |-> fraudResult.riskScore,
                                       explanation |-> explanation, timestamp |-> t ]])

\* a GET request: the handler it is dispatched to answers it
Get(path) ==
    /\ \E handler \in {Dispatch(Routes, "GET", path)} :
          call' = Call("GET", path,
              CASE handler = "getTransactions" ->
                      [handler |-> handler, status |-> 200, body |->
                               [ transactions |-> queryTransactions(transactions, NoQuery),
                                 stats |-> getTransactionStats(transactions) ]]
                [] handler = "getTransactionById" ->
                      LET byString == [i \in DOMAIN transactions |->
                                          [transactions[i] EXCEPT !.id = ToString(@)]]
                          transaction == getTransaction(byString, path[2])
                      IN  IF transaction = Undefined
                          THEN [handler |-> handler, status |-> 404, body |-> "Transaction not found"]
                          ELSE [handler |-> handler, status |-> 200, body |-> transaction[1]]
                [] handler = "getTransactionStats" ->
                      [handler |-> handler, status |-> 200, body |-> getTransactionStats(transactions)]
                [] OTHER -> [handler |-> handler, status |-> 404, body |-> "Route not found"])
    /\ UNCHANGED <<config, transactions, cache, procs, now, nextId, started, returned, analysis,
                   created, storedAt, attempts>>

NextRoutes ==
    \/ \E request \in Requests, content \in Completions, failed \in BOOLEAN, t \in now..MaxTime :
          PostCharge(request, content, failed, t)
    \/ \E path \in { <<"transactions">>, <<"transactions", "stats">>, <<"health">> }
                       \cup { <<"transactions", ToString(id)>> : id \in 1..(MaxPayments + 1) } :
          Get(path)

SpecRoutes == Init /\ [][NextRoutes]_vars

(***************************************************************************)
(* PaymentRoutingService.processPayment called directly, as its tests call *)
(* it: the caller awaits one call before it makes the next. The request    *)
(* body is not validated on this path, so an amount may be negative.       *)
(***************************************************************************)
DirectRequests ==
    { PaymentRequest(-10000, EmailExample),
      PaymentRequest(-10000, EmailTrusted),
      PaymentRequest(60050, EmailTrusted),
      PaymentRequest(1000000, EmailTestRu),
      [PaymentRequest(5000, UserAtTrustedUpper) EXCEPT !.currency = "JPY"] }

NextDirect ==
    \/ \E request \in DirectRequests : processPayment(1, request)
    \/ \E content \in Completions : OpenAIReturns(1, content)
    \/ OpenAIFails(1)
    \/ CachedExplanation(1)

SpecDirect == Init /\ [][NextDirect]_vars

(***************************************************************************)
(* Properties.                                                             *)
(***************************************************************************)
HighRiskRequest == PaymentRequest(1000000, EmailTestRu)
LowRiskRequest == PaymentRequest(5000, EmailTrusted)
DocumentedRequest == PaymentRequest(10000, EmailExample)

Blocked == [provider |-> "blocked", status |-> "blocked"]
Stripe == [provider |-> "stripe", status |-> "success"]
Paypal == [provider |-> "paypal", status |-> "success"]

Route(t) == [provider |-> t.provider, status |-> t.status]

InFlight == {p \in Procs : procs[p].pc # "idle"}

\* C1: whatever the analysis data and whatever configuration updateConfig
\* has set, analyzeRisk answers a riskScore between 0 and 1, and isHighRisk
\* is true exactly when the riskScore is at least the configured threshold.
C1_ScoreInRange ==
    analysis # Undefined =>
        LET result == analysis[1].result
        IN  /\ FLeq(Num(0), result.riskScore)
            /\ FLeq(result.riskScore, Num(100))
            /\ result.isHighRisk <=> FLeq(config.threshold, result.riskScore)

\* an analysis whose rule weights add up to more than 1, under a threshold
\* that updateConfig has changed
C1_Witness ==
    /\ analysis # Undefined
    /\ config.threshold # FRAUD_THRESHOLD
    /\ Len(analysis[1].result.triggeredRules) >= 5
    /\ analysis[1].result.riskScore = Num(100)
    /\ analysis[1].result.isHighRisk

\* C2: determineRouting is a decision table: a high-risk result is routed to
\* (blocked, blocked); otherwise a riskScore under 0.2 goes to (stripe,
\* success), one from 0.2 and under 0.4 to (paypal, success), and one from
\* 0.4 on to (stripe, success). Stated of every payment routed so far.
C2_RoutingTable ==
    /\ \A i \in DOMAIN transactions :
          LET t == transactions[i]
          IN  /\ t.metadata.isHighRisk => Route(t) = Blocked
              /\ (~t.metadata.isHighRisk /\ FLess(t.riskScore, Num(20))) => Route(t) = Stripe
              /\ (~t.metadata.isHighRisk /\ FLeq(Num(20), t.riskScore) /\ FLess(t.riskScore, Num(40)))
                    => Route(t) = Paypal
              /\ (~t.metadata.isHighRisk /\ FLeq(Num(40), t.riskScore)) => Route(t) = Stripe
    /\ \A p \in InFlight :
          LET result == procs[p].fraudResult[1]
              routing == procs[p].routing[1]
          IN  /\ result.isHighRisk => routing = Blocked
              /\ (~result.isHighRisk /\ FLess(result.riskScore, Num(20))) => routing = Stripe
              /\ (~result.isHighRisk /\ FLeq(Num(20), result.riskScore) /\ FLess(result.riskScore, Num(40)))
                    => routing = Paypal
              /\ (~result.isHighRisk /\ FLeq(Num(40), result.riskScore)) => routing = Stripe

\* the ledger holds a payment of the paypal band and one sent to stripe
\* with 0.4 or more
C2_Witness ==
    /\ \E i \in DOMAIN transactions :
          Route(transactions[i]) = Paypal
    /\ \E i \in DOMAIN transactions :
          Route(transactions[i]) = Stripe /\ FLeq(Num(40), transactions[i].riskScore)

\* C3: every ledger entry has (provider, status) among (blocked, blocked),
\* (stripe, success) and (paypal, success), never the status failed; it is
\* blocked exactly when its metadata.isHighRisk is true, which is exactly
\* when its riskScore reached the threshold in force when it was scored.
C3_LedgerRoutes ==
    \A i \in DOMAIN transactions :
        LET t == transactions[i]
        IN  /\ Route(t) \in {Blocked, Stripe, Paypal}
            /\ t.status # "failed"
            /\ (t.status = "blocked") <=> t.metadata.isHighRisk
            /\ t.metadata.isHighRisk <=> FLeq(returned[i].config.threshold, t.riskScore)

\* a payment scored 0.5 or more that went through under the raised
\* threshold, beside one blocked under the threshold of the start
C3_Witness ==
    \E i, j \in DOMAIN transactions :
        /\ transactions[i].status = "success"
        /\ FLeq(FRAUD_THRESHOLD, transactions[i].riskScore)
        /\ returned[i].config.threshold # FRAUD_THRESHOLD
        /\ transactions[j].status = "blocked"
        /\ returned[j].config.threshold = FRAUD_THRESHOLD

NamedRules == {"large_amount", "suspicious_domain", "test_domain"}

\* C6: a payment of 10000 from user@test.ru triggers at least two of
\* large_amount, suspicious_domain and test_domain, gets a riskScore of at
\* least 0.5 and is routed to (blocked, blocked), whatever the ledger held.
C6_HighRiskIsBlocked ==
    \A i \in DOMAIN returned :
        returned[i].request = HighRiskRequest =>
            /\ Cardinality(Range(transactions[i].metadata.triggeredRules) \cap NamedRules) >= 2
            /\ FLeq(Num(50), returned[i].response.riskScore)
            /\ Route(returned[i].response) = Blocked

\* the payment was processed when the ledger already held an entry of the
\* same payer
C6_Witness ==
    \E i \in DOMAIN returned :
        /\ returned[i].request = HighRiskRequest
        /\ returned[i].history # <<>>
        /\ Route(returned[i].response) = Blocked

\* C7: a payment of 50 from user@trusted.com, from a payer with no history
\* in the ledger, is routed to (stripe, success).
C7_LowRiskToStripe ==
    \A i \in DOMAIN returned :
        (returned[i].request = LowRiskRequest /\ returned[i].history = <<>>) =>
            Route(returned[i].response) = Stripe

\* such a payment has been answered, after a payment of another payer
C7_Witness ==
    \E i \in DOMAIN returned :
        /\ i > 1
        /\ returned[i].request = LowRiskRequest
        /\ returned[i].history = <<>>
        /\ Route(transactions[i]) = Stripe

\* C8: the documented low-risk example, 100 USD from user@example.com on an
\* empty ledger under the default configuration, is answered with the
\* status success and a riskScore under 0.5.
C8_DocumentedExampleIsLowRisk ==
    (/\ Len(returned) >= 1
     /\ returned[1].request = DocumentedRequest
     /\ returned[1].history = <<>>
     /\ returned[1].config = FraudDetectionService) =>
        /\ returned[1].response.status = "success"
        /\ FLess(returned[1].response.riskScore, Num(50))

AmountContextRules ==
    { "gradual_amount_increase", "under_reporting_threshold", "micro_to_large_transaction",
      "exceeds_historical_average", "first_time_high_value",
      "inconsistent_merchant_category", "maximum_credit_limit", "sequential_amount_testing" }

\* C9: when the analysis data carries no amount context, none of the eight
\* amount-context rules triggers, whatever the amount.
C9_NoContextNoAmountRule ==
    (analysis # Undefined /\ analysis[1].data.transactionAmount = Undefined) =>
        Range(analysis[1].result.triggeredRules) \cap AmountContextRules = {}

RECURSIVE SumHundredths(_)
SumHundredths(names) ==
    IF names = <<>> THEN 0 ELSE toFixed2(Weight(Head(names))) + SumHundredths(Tail(names))

\* C10: analyzeRisk evaluates every registered rule in registration order:
\* triggeredRules is the names of the rules whose predicate holds, in that
\* order and without duplicates, and riskScore is the lesser of the sum of
\* their weights and 1, rounded to 2 decimal places.
C10_OrderedAndRounded ==
    analysis # Undefined =>
        LET data   == analysis[1].data
            result == analysis[1].result
            holds(name) == Condition(name, data, config)
            sum == SumHundredths(result.triggeredRules)
        IN  /\ result.triggeredRules = SelectSeq(config.rules, holds)
            /\ \A i, j \in DOMAIN result.triggeredRules :
                  result.triggeredRules[i] = result.triggeredRules[j] => i = j
            /\ result.riskScore = Num(IF sum < 100 THEN sum ELSE 100)

(***************************************************************************)
(* Properties of the ledger, under SpecLedger. The identifiers from 1 are  *)
(* the ones createTransaction assigned: a stored record that carries one   *)
(* was answered by createTransaction and handed to addTransaction.         *)
(***************************************************************************)
Called(op) == call # Undefined /\ call[1].op = op

Stored(txs) == {txs[i] : i \in DOMAIN txs}

\* C11: round trip: createTransaction, then addTransaction of the created
\* record, then getTransaction(id) answers a value equal to the created
\* record; createTransaction alone does not change the store, and
\* getTransaction of an identifier that is not stored answers undefined.
C11_RoundTrip ==
    /\ Called("createTransaction") =>
          /\ transactions = call[1].store
          /\ created = Some(call[1].result)
          /\ \A t \in Stored(transactions) : t.id # call[1].result.id
          /\ \A field \in DOMAIN call[1].args[1] : call[1].result[field] = call[1].args[1][field]
    /\ Called("getTransaction") =>
          /\ \A t \in Stored(transactions) :
                (t.id = call[1].args[1] /\ t.id >= 1) => call[1].result = Some(t)
          /\ (\A t \in Stored(transactions) : t.id # call[1].args[1]) => call[1].result = Undefined

C11_Witness ==
    /\ Called("getTransaction")
    /\ call[1].args[1] >= 1
    /\ call[1].result # Undefined
    /\ call[1].result[1].id = call[1].args[1]
    /\ Len(transactions) >= 2
    /\ transactions[1].id # call[1].args[1]

\* C12: the ledger is append-only: a step that is not clearTransactions
\* leaves the stored sequence as it is or, when it is addTransaction, puts
\* the record it was handed at the end; so the reads (getTransaction,
\* getAllTransactions, the lookups, queryTransactions with its sorting and
\* getTransactionStats) and a change of the array getAllTransactions
\* answered leave the stored sequence and its order unchanged.
C12_AppendOnly ==
    [][ \/ transactions' = transactions
        \/ /\ call' # Undefined
           /\ call'[1].op = "addTransaction"
           /\ transactions' = Append(transactions, call'[1].args[1])
        \/ /\ call' # Undefined
           /\ call'[1].op = "clearTransactions" ]_vars

C12_Witness ==
    /\ Called("queryTransactions")
    /\ Len(transactions) >= 3
    /\ transactions = call[1].store
    /\ Len(call[1].result) = Len(transactions)
    /\ call[1].result # transactions

\* a transaction satisfies every criterion the query supplies
Matches(t, query) ==
    /\ query.email # Undefined => Includes(ToLowerCase(t.email), ToLowerCase(query.email[1]))
    /\ query.status # Undefined => t.status = query.status[1]
    /\ query.provider # Undefined => t.provider = query.provider[1]
    /\ query.startDate # Undefined => t.timestamp >= query.startDate[1]
    /\ query.endDate # Undefined => t.timestamp <= query.endDate[1]

Occurrences(txs, t) == Cardinality({i \in DOMAIN txs : txs[i] = t})

Paged(query) == query.page # Undefined /\ query.limit # Undefined

\* C13: queryTransactions without pagination answers exactly the stored
\* transactions that satisfy every supplied criterion, each as many times as
\* it is stored: the email contains the query email whatever the case, the
\* status and the provider are equal, the timestamp is from startDate to
\* endDate; a query that nothing satisfies answers the empty list.
C13_QueryFilters ==
    (Called("queryTransactions") /\ ~Paged(call[1].args[1])) =>
        \A t \in Stored(call[1].store) \cup Stored(call[1].result) :
            Occurrences(call[1].result, t) =
                IF Matches(t, call[1].args[1]) THEN Occurrences(call[1].store, t) ELSE 0

C13_Witness ==
    /\ Called("queryTransactions")
    /\ ~Paged(call[1].args[1])
    /\ call[1].args[1].status # Undefined
    /\ call[1].args[1].startDate # Undefined
    /\ call[1].args[1].endDate # Undefined
    /\ call[1].result # <<>>
    /\ Len(call[1].result) < Len(call[1].store)
    /\ \E t \in Stored(call[1].store) :
          t.status = call[1].args[1].status[1] /\ t.timestamp < call[1].args[1].startDate[1]

\* transaction a is before transaction b in the order of a sort key
KeyLess(sortBy, a, b) ==
    CASE sortBy = "timestamp" -> a.timestamp < b.timestamp
      [] sortBy = "amount" -> a.amount < b.amount
      [] sortBy = "riskScore" -> FLess(a.riskScore, b.riskScore)
      [] sortBy = "email" -> StrLess(a.email, b.email)

NonDecreasing(txs, sortBy) ==
    \A i, j \in DOMAIN txs : i < j => ~KeyLess(sortBy, txs[j], txs[i])

NonIncreasing(txs, sortBy) ==
    \A i, j \in DOMAIN txs : i < j => ~KeyLess(sortBy, txs[i], txs[j])

\* C14: queryTransactions orders its answer by the requested key
\* (timestamp, amount, riskScore or email): non-decreasing when sortOrder is
\* asc, non-increasing when sortOrder is desc, and by timestamp descending
\* when no sortBy is given; without pagination the answer is a permutation
\* of the stored transactions that satisfy the criteria.
C14_QueryOrder ==
    Called("queryTransactions") =>
        LET query == call[1].args[1]
            result == call[1].result
            filtered == SelectSeq(call[1].store, LAMBDA t : Matches(t, query))
        IN  /\ (query.sortBy # Undefined /\ query.sortOrder = Some("asc")) =>
                  NonDecreasing(result, query.sortBy[1])
            /\ (query.sortBy # Undefined /\ query.sortOrder = Some("desc")) =>
                  NonIncreasing(result, query.sortBy[1])
            /\ query.sortBy = Undefined => NonIncreasing(result, "timestamp")
            /\ ~Paged(query) =>
                  \A t \in Stored(filtered) \cup Stored(result) :
                      Occurrences(result, t) = Occurrences(filtered, t)

C14_Witness ==
    /\ Called("queryTransactions")
    /\ call[1].args[1].sortBy = Some("email")
    /\ call[1].args[1].sortOrder = Some("desc")
    /\ Len(call[1].result) = 3
    /\ KeyLess("email", call[1].result[3], call[1].result[2])
    /\ KeyLess("email", call[1].result[2], call[1].result[1])
    /\ KeyLess("email", call[1].store[1], call[1].store[2])

\* the elements of s at the positions first to last - 1, counted from 0,
\* as far as s has them
SliceOf(s, first, last) ==
    LET end == IF last < Len(s) THEN last ELSE Len(s)
    IN  IF first >= end THEN <<>> ELSE [i \in 1..(end - first) |-> s[first + i]]

\* C15: when both page (from 1) and limit are given, queryTransactions
\* answers exactly the slice [(page-1)*limit, page*limit) of what the same
\* query answers without them, the filtered and sorted sequence; a page
\* past the end is the empty list.
C15_Pagination ==
    (Called("queryTransactions") /\ Paged(call[1].args[1])) =>
        LET query == call[1].args[1]
            page == query.page[1]
            limit == query.limit[1]
            whole == queryTransactions(call[1].store, [query EXCEPT !.page = Undefined, !.limit = Undefined])
        IN  /\ call[1].result = SliceOf(whole, (page - 1) * limit, page * limit)
            /\ (page - 1) * limit >= Len(whole) => call[1].result = <<>>

C15_Witness ==
    /\ Called("queryTransactions")
    /\ call[1].args[1].page = Some(2)
    /\ call[1].args[1].limit = Some(2)
    /\ call[1].args[1].sortBy = Some("amount")
    /\ Len(call[1].store) = 3
    /\ Len(call[1].result) = 1
    /\ call[1].result[1] # call[1].store[3]

\* the sum of the counts of a map from values to counts
RECURSIVE SumOfCounts(_)
SumOfCounts(counts) ==
    IF DOMAIN counts = {} THEN 0
    ELSE LET v == CHOOSE v \in DOMAIN counts : TRUE
         IN  counts[v] + SumOfCounts([w \in DOMAIN counts \ {v} |-> counts[w]])

RECURSIVE TotalOf(_)
TotalOf(txs) == IF txs = <<>> THEN 0 ELSE Head(txs).amount + TotalOf(Tail(txs))

\* C16: after any appends and clears, getTransactionStats answers total as
\* the number of stored transactions, byStatus and byProvider as maps from
\* each value that occurs to the number of transactions that carry it (the
\* counts of each map sum to total, both maps are empty when total is 0),
\* totalAmount as the sum of the stored amounts, and averageAmount as
\* totalAmount / total when total > 0 and 0 otherwise.
C16_Stats ==
    Called("getTransactionStats") =>
        LET stats == call[1].result
            store == call[1].store
        IN  /\ stats.total = Len(store)
            /\ DOMAIN stats.byStatus = {t.status : t \in Stored(store)}
            /\ DOMAIN stats.byProvider = {t.provider : t \in Stored(store)}
            /\ \A s \in DOMAIN stats.byStatus :
                  stats.byStatus[s] = Cardinality({i \in DOMAIN store : store[i].status = s})
            /\ \A p \in DOMAIN stats.byProvider :
                  stats.byProvider[p] = Cardinality({i \in DOMAIN store : store[i].provider = p})
            /\ SumOfCounts(stats.byStatus) = stats.total
            /\ SumOfCounts(stats.byProvider) = stats.total
            /\ stats.total = 0 => DOMAIN stats.byStatus = {} /\ DOMAIN stats.byProvider = {}
            /\ stats.totalAmount = TotalOf(store)
            /\ stats.averageAmount.den > 0
            /\ IF stats.total > 0
               THEN stats.averageAmount.num * stats.total = stats.totalAmount * stats.averageAmount.den
               ELSE stats.averageAmount.num = 0

C16_Witness ==
    /\ Called("getTransactionStats")
    /\ Len(transactions) = 3
    /\ Cardinality(DOMAIN call[1].result.byProvider) = 3
    /\ Cardinality(DOMAIN call[1].result.byStatus) = 2
    /\ \A t \in Stored(transactions) : t.id # 1
    /\ call[1].result.totalAmount = 35000

\* two characters are the same letter in either case, or the same character
SameLetter(c, d) ==
    \/ c = d
    \/ \E i \in DOMAIN UpperCase : {c, d} = {UpperCase[i], LowerCase[i]}

SameEmail(a, b) == Len(a) = Len(b) /\ \A i \in DOMAIN a : SameLetter(a[i], b[i])

\* C17: the lookups by one criterion answer exactly the stored entries that
\* match, in insertion order: getTransactionsByEmail the entries whose whole
\* email equals the one asked for, whatever the case; getTransactionsByStatus
\* the entries with exactly that status; getTransactionsByDateRange the
\* entries with start <= timestamp <= end, and none when start > end.
C17_Lookups ==
    /\ Called("getTransactionsByEmail") =>
          call[1].result = SelectSeq(call[1].store, LAMBDA t : SameEmail(t.email, call[1].args[1]))
    /\ Called("getTransactionsByStatus") =>
          call[1].result = SelectSeq(call[1].store, LAMBDA t : t.status = call[1].args[1])
    /\ Called("getTransactionsByDateRange") =>
          /\ call[1].result =
                SelectSeq(call[1].store,
                          LAMBDA t : call[1].args[1] <= t.timestamp /\ t.timestamp <= call[1].args[2])
          /\ call[1].args[1] > call[1].args[2] => call[1].result = <<>>

C17_Witness ==
    /\ Called("getTransactionsByEmail")
    /\ call[1].args[1] = UserAtTrustedUpper
    /\ Len(call[1].store) = 3
    /\ Len(call[1].result) = 2
    /\ call[1].result = <<call[1].store[1], call[1].store[3]>>

\* C18: updateConfig merges a partial configuration into the current one:
\* the fields supplied take their new values and every other field keeps
\* its value; and the analyzeRisk that follows uses the threshold, the
\* largeAmountThreshold and the suspiciousDomains of the merged
\* configuration, with the rules it had.
C18_UpdateConfig ==
    [][ /\ config' # config =>
              \E partial \in AnalysisPartials :
                  /\ DOMAIN config' = DOMAIN config
                  /\ \A f \in DOMAIN partial : config'[f] = partial[f]
                  /\ \A f \in DOMAIN config \ DOMAIN partial : config'[f] = config[f]
        /\ (analysis = Undefined /\ analysis' # Undefined) =>
              LET data == analysis'[1].data
                  result == analysis'[1].result
                  triggered == Range(result.triggeredRules)
              IN  /\ result.isHighRisk <=> FLeq(config.threshold, result.riskScore)
                  /\ "large_amount" \in Range(config.rules) =>
                        ("large_amount" \in triggered <=> data.amount > config.largeAmountThreshold)
                  /\ "suspicious_domain" \in Range(config.rules) =>
                        ("suspicious_domain" \in triggered <=>
                            \E d \in Range(config.suspiciousDomains) :
                                EndsWith(ToLowerCase(data.domain), ToLowerCase(d))) ]_vars

C18_Witness ==
    /\ analysis # Undefined
    /\ config.rules = getDefaultRules
    /\ config.threshold = Num(30)
    /\ config.largeAmountThreshold = 1000000
    /\ config.suspiciousDomains = DocumentedDomains
    /\ EndsWith(ToLowerCase(analysis[1].data.domain), ExampleCom)
    /\ "suspicious_domain" \notin Range(analysis[1].result.triggeredRules)
    /\ analysis[1].result.isHighRisk
    /\ FLess(analysis[1].result.riskScore, FRAUD_THRESHOLD)

\* the minutes from one reading of the clock to another
MinutesBetween(earlier, later) == (later - earlier) * 2 * CacheMinutes

Explained == call # Undefined /\ call[1].op = "generateExplanation" /\ call[1].result # Undefined

\* C19: explanations are cached for 5 minutes: a generateExplanation call
\* with the cache key of an explanation cached at most 5 minutes before
\* answers that explanation without a completion request, and an
\* explanation cached more than 5 minutes before is no longer answered from
\* the cache: the completion is requested again.
C19_CachedFiveMinutes ==
    Explained =>
        \A e \in call[1].known :
            IF MinutesBetween(e.at, call[1].at) <= CacheMinutes
            THEN ~call[1].requested /\ call[1].result = Some(e.value)
            ELSE call[1].requested

\* C20: a GET request for /transactions/stats is dispatched to the
\* statistics handler and answered 200 with the statistics of the ledger;
\* it is never handled as the lookup of the transaction with the
\* identifier 'stats'.
C20_StatsRoute ==
    (Called("GET") /\ call[1].args = <<"transactions", "stats">>) =>
        /\ call[1].result.handler = "getTransactionStats"
        /\ call[1].result.status = 200
        /\ call[1].result.body = getTransactionStats(call[1].store)

(***************************************************************************)
(* Properties of processPayment called directly, under SpecDirect.         *)
(***************************************************************************)
\* the ledger entry of an answered call
EntryOf(answer) == getTransaction(transactions, answer.response.transactionId)

\* C21: a payment with a negative amount is processed without error, its
\* transaction is appended to the ledger, and its result status is blocked
C21_NegativeAmountBlocked ==
    \A i \in DOMAIN returned :
        returned[i].request.amount < 0 =>
            /\ EntryOf(returned[i]) # Undefined
            /\ EntryOf(returned[i])[1].amount = returned[i].request.amount
            /\ returned[i].response.status = "blocked"

(***************************************************************************)
(* Properties of the amount rules, under SpecAnalyze.                      *)
(***************************************************************************)
\* the rule is among the rules of the configuration the analysis ran with
Applies(rule) == \E i \in DOMAIN config.rules : config.rules[i] = rule

Triggered(rule) == \E i \in DOMAIN analysis[1].result.triggeredRules :
                       analysis[1].result.triggeredRules[i] = rule

\* the history of the payer in the analysed data, empty without an amount context
HistoryOf(data) ==
    IF data.transactionAmount = Undefined THEN <<>>
    ELSE data.transactionAmount[1].previousAmounts

\* C22: with a history of at least one entry, micro_to_large_transaction
\* triggers exactly when the previous amount is under 10 and the current
\* amount is over 100
C22_MicroToLarge ==
    (analysis # Undefined /\ Applies("micro_to_large_transaction")) =>
        LET data == analysis[1].data
            previousAmounts == HistoryOf(data)
        IN  Len(previousAmounts) >= 1 =>
                ( Triggered("micro_to_large_transaction")
                    <=> ( previousAmounts[Len(previousAmounts)] < MicroAmount
                          /\ data.amount > LargeFollowUp ) )

\* the number of places, among the last five entries of a history, where an
\* entry is greater than the entry before it
RECURSIVE IncreasingPairs(_, _)
IncreasingPairs(amounts, taken) ==
    IF Len(amounts) < 2 \/ taken = 4 THEN 0
    ELSE IncreasingPairs(SubSeq(amounts, 1, Len(amounts) - 1), taken + 1)
            + (IF amounts[Len(amounts)] > amounts[Len(amounts) - 1] THEN 1 ELSE 0)

\* C23: gradual_amount_increase triggers exactly when the last five entries
\* of the history show at least three increasing consecutive pairs and the
\* current amount is greater than the last entry; history [1, 2, 3, 4] with
\* current 5 triggers it together with sequential_amount_testing, history
\* [100, 50, 300, 200] with current 500 does not trigger it
C23_GradualIncrease ==
    (analysis # Undefined /\ Applies("gradual_amount_increase")) =>
        LET data == analysis[1].data
            previousAmounts == HistoryOf(data)
        IN  /\ Triggered("gradual_amount_increase")
                 <=> ( /\ IncreasingPairs(previousAmounts, 0) >= 3
                       /\ data.amount > previousAmounts[Len(previousAmounts)] )
            /\ (previousAmounts = <<100, 200, 300, 400>> /\ data.amount = 500) =>
                  ( Triggered("gradual_amount_increase")
                    /\ (Applies("sequential_amount_testing") => Triggered("sequential_amount_testing")) )
            /\ (previousAmounts = <<10000, 5000, 30000, 20000>> /\ data.amount = 50000) =>
                  ~Triggered("gradual_amount_increase")

C23_Witness ==
    /\ analysis # Undefined
    /\ HistoryOf(analysis[1].data) = <<100, 200, 300, 400>>
    /\ analysis[1].data.amount = 500
    /\ Triggered("gradual_amount_increase")
    /\ Triggered("sequential_amount_testing")

EntriesOf(email) == SelectSeq(transactions, LAMBDA t : SameEmail(t.email, email))

\* C25: the amount context built for a payment has previousAmounts equal to
\* the amounts of the ledger entries of the payer's email, compared without
\* regard to case, in chronological order; isFirstTimeTransaction is true
\* exactly when there is none; userAverageAmount is their mean, and it and
\* the deviation are 0 when there is none; reportingThreshold is 10000
\* whatever the currency
C25_AmountContext ==
    [][ \A p \in Procs :
          (procs[p].pc = "idle" /\ procs'[p].pc # "idle") =>
              LET context == procs'[p].fraudData[1].transactionAmount[1]
                  entries == EntriesOf(procs'[p].request[1].email)
              IN  /\ context.previousAmounts = [i \in DOMAIN entries |-> entries[i].amount]
                  /\ \A i, j \in DOMAIN entries :
                        i < j => entries[i].timestamp <= entries[j].timestamp
                  /\ context.isFirstTimeTransaction <=> entries = <<>>
                  /\ context.userAverageAmount.num * (IF entries = <<>> THEN 1 ELSE Len(entries))
                        = TotalOf(entries) * context.userAverageAmount.den
                  /\ entries = <<>> =>
                        ( context.userAverageAmount.num = 0
                          /\ BigTrim(context.userStandardDeviation.num) = <<>> )
                  /\ context.reportingThreshold = 10000 * 100 ]_vars

C25_Witness ==
    /\ procs[1].pc # "idle"
    /\ procs[1].request[1].email = UserAtTrustedUpper
    /\ procs[1].request[1].currency = "JPY"
    /\ procs[1].fraudData[1].transactionAmount[1].previousAmounts = <<60050>>
    /\ ~procs[1].fraudData[1].transactionAmount[1].isFirstTimeTransaction

(***************************************************************************)
(* Properties of overlapping processPayment calls, under Spec.             *)
(***************************************************************************)
\* the place in the ledger of the entry of an answered call
PlaceOf(answer) ==
    CHOOSE k \in DOMAIN transactions : transactions[k].id = answer.response.transactionId

\* the amounts of the payer's entries that precede the entry of an answered call
PrecedingAmounts(answer) ==
    LET entries == SelectSeq(SubSeq(transactions, 1, PlaceOf(answer) - 1),
                             LAMBDA t : SameEmail(t.email, answer.request.email))
    IN  [i \in DOMAIN entries |-> entries[i].amount]

\* C27: whatever the interleaving of overlapping processPayment calls, the
\* history a payment was scored with is the payer's ledger entries that
\* precede the payment's own entry; so for each email at most one ledger
\* entry was scored as a first payment
C27_HistoryPrecedesEntry ==
    /\ \A i \in DOMAIN returned : returned[i].history = PrecedingAmounts(returned[i])
    /\ \A i, j \in DOMAIN returned :
          ( /\ SameEmail(returned[i].request.email, returned[j].request.email)
            /\ returned[i].history = <<>> /\ returned[j].history = <<>> ) => i = j

\* the two requests ask for the same payment
SameRequest(a, b) ==
    /\ a.amount = b.amount /\ a.currency = b.currency
    /\ a.source = b.source /\ a.email = b.email

\* C28: when processPayment blocks a request, the identical request
\* submitted next, with no other change of the ledger and the same
\* configuration, is blocked as well
C28_ResubmissionStaysBlocked ==
    \A i \in DOMAIN returned :
        ( /\ i > 1
          /\ returned[i - 1].response.status = "blocked"
          /\ SameRequest(returned[i - 1].request, returned[i].request)
          /\ returned[i - 1].config = returned[i].config )
            => returned[i].response.status = "blocked"

\* C29: in processPayment every payment of a positive amount from a payer
\* who has no ledger entry triggers exceeds_historical_average, so that the
\* riskScore of a payer's first payment is at least 0.35
C29_FirstPaymentExceedsAverage ==
    [][ \A p \in Procs :
          ( /\ procs[p].pc = "idle" /\ procs'[p].pc # "idle"
            /\ procs'[p].request[1].amount > 0
            /\ EntriesOf(procs'[p].request[1].email) = <<>>
            /\ \E i \in DOMAIN config.rules : config.rules[i] = "exceeds_historical_average" ) =>
              /\ \E i \in DOMAIN procs'[p].fraudResult[1].triggeredRules :
                    procs'[p].fraudResult[1].triggeredRules[i] = "exceeds_historical_average"
              /\ FLeq(Num(35), procs'[p].fraudResult[1].riskScore) ]_vars

C29_Witness ==
    /\ procs[1].pc # "idle"
    /\ procs[1].request[1] = PaymentRequest(5000, EmailTrusted)
    /\ transactions = <<>>
    /\ procs[1].fraudResult[1].triggeredRules = <<"exceeds_historical_average", "odd_cent_patterns">>
    /\ toFixed2(procs[1].fraudResult[1].riskScore) = 45

(***************************************************************************)
(* Properties of the size of the explanation cache, under SpecCache.       *)
(***************************************************************************)
\* the key the call in progress asked for is in the cache
KeyCached(c) == \E i \in DOMAIN c : c[i].key = CacheKeyOf(call[1].args[1])

\* C30: whenever a generateExplanation call has returned, the cache holds
\* at most 100 entries; the step that stores the entry that brings the size
\* above 100 evicts the 20 entries that were inserted first; and an
\* explanation answered because the completion request threw is not stored
C30_CacheBounded ==
    /\ []( (call = Undefined \/ Explained) => Len(cache) <= 100 )
    /\ []( (Explained /\ call[1].threw) => ~KeyCached(cache) )
    /\ [][ (Awaiting /\ Len(cache) = 100 /\ cache' # cache) =>
              /\ Len(cache') = 100 + 1 - 20
              /\ \A i \in 1..(100 - 20) : cache'[i] = cache[i + 20]
              /\ cache'[Len(cache')].key = CacheKeyOf(call[1].args[1]) ]_vars

C30_Witness ==
    /\ Explained
    /\ ~call[1].threw
    /\ Cardinality(storedAt) = 100 + 1
    /\ Len(cache) = 100 + 1 - 20
    /\ cache[1].key = CacheKeyOf(CacheInput(20 + 1))

(***************************************************************************)
(* Properties of the debounce rule, under SpecRapidFire.                   *)
(***************************************************************************)
SameKey(a, b) == a.data.source = b.data.source /\ a.data.domain = b.data.domain

\* the evaluations before the i-th one that had its source and domain
EarlierAttempts(i) == {j \in 1..(i - 1) : SameKey(returned[j], returned[i])}

Latest(S) == CHOOSE j \in S : \A k \in S : k <= j

RapidFire(i) ==
    \E k \in DOMAIN returned[i].result.triggeredRules :
        returned[i].result.triggeredRules[k] = "rapid_fire_transactions"

=============================================================================
